---- MODULE Spec2Model ----
(***************************************************************************)
(* EcoBackend: the fetch cache (utils/api_helpers.py), the deforestation   *)
(* composite cache (scrapers/nasa_scraper.py), the payload normalizers     *)
(* (utils/data_processing.py) and the /api/aqi handler (routes/api.py).    *)
(***************************************************************************)
EXTENDS Integers, Sequences, FiniteSets, TLC

\* ------------------------------------------------------------------ bounds
MaxTime == 3
MaxFetches == 2

\* ---------------------------------------------------------------- state
VARIABLES
    cache,      \* api_helpers.cache: cache_key -> (cached_time, response)
    now,        \* the value time.time() returns
    fetches,    \* number of requests.get calls made by fetch_with_cache
    issued,     \* history: for each requests.get call, its caller and outcome
    pc,         \* per request: position inside fetch_with_cache
    req,        \* per request: the url and headers of the call
    resp,       \* per request: the local variable response
    ret,        \* per request: what the call gave back to its caller
    calls,      \* number of calls made so far in the sequential models
    deforestation_cache,  \* nasa_scraper.deforestation_cache: data, timestamp
    lastGood,   \* history: the composite most recently built with success
    outcome,    \* history: which path the last get_deforestation_data took
    gfw_data,   \* history: what get_gfw_data() gave the last call that made it
    data,       \* the argument a normalizer is called with
    result,     \* what the normalizer returned
    phase,      \* "input" before the normalizer has run, "output" after
    response,   \* get_aqi_data: the local variable response
    reply       \* get_aqi_data: the (body, HTTP status) given to the client

procVars == <<issued, pc, req, resp, ret>>
cacheVars == <<cache, now, fetches, procVars>>
defoVars == <<deforestation_cache, lastGood, outcome, gfw_data>>
normVars == <<data, result, phase>>
routeVars == <<response, reply>>

vars == <<cacheVars, calls, defoVars, normVars, routeVars>>

\* What the concurrent fetch_with_cache model leaves alone.
notCache == <<calls, defoVars, normVars, routeVars>>

\* ------------------------------------------------------------ JSON values
\* A decoded JSON value carries its Python type; a dict is a function from
\* its keys, a list a sequence.
JNull == [t |-> "null"]
JStr(s) == [t |-> "str", v |-> s]
JInt(n) == [t |-> "int", v |-> n]
JDict(f) == [t |-> "dict", v |-> f]
JList(q) == [t |-> "list", v |-> q]

\* dict.get(key, default)
Get(d, key, default) == IF key \in DOMAIN d THEN d[key] ELSE default

\* deforestation_cache['data'] is None
NoData == [kind |-> "None"]
NoReply == [code |-> 0, body |-> JNull]
\* No call has returned yet.
NoResult == [kind |-> "none"]

\* ------------------------------------------------- fetch_with_cache inputs
Procs == {1, 2}
\* headers is None or a dict: name/value pairs in insertion order.
NoHeaders == [none |-> TRUE, items |-> <<>>]
HdrAB == [none |-> FALSE, items |-> << <<"A", "1">>, <<"B", "2">> >>]
HdrBA == [none |-> FALSE, items |-> << <<"B", "2">>, <<"A", "1">> >>]
\* The (url, headers) arguments the requests are made with.
Requests ==
    {<<"u1", NoHeaders>>, <<"u1", HdrAB>>, <<"u1", HdrBA>>, <<"u2", HdrAB>>}
CacheTimes == {1, 2}
NoResp == [status |-> 0, id |-> 0]
NoReq == [url |-> "", headers |-> NoHeaders]
NoRet == [kind |-> "none", resp |-> NoResp, reqs |-> 0]

\* The set of name/value pairs a header mapping holds, whatever their order.
HeaderPairs(h) == {h.items[i] : i \in 1 .. Len(h.items)}

\* str(headers): "None", or the pairs written out in insertion order.
RECURSIVE ItemsStr(_)
ItemsStr(items) ==
    IF items = <<>> THEN <<>>
    ELSE <<Head(items)[1], ":", Head(items)[2], ",">> \o ItemsStr(Tail(items))

HeaderStr(h) ==
    IF h.none THEN <<"None">> ELSE <<"{">> \o ItemsStr(h.items) \o <<"}">>

\* cache_key = f"{url}_{str(headers)}"
CacheKey(url, headers) == <<url, "_">> \o HeaderStr(headers)

\* The boundary now - cached_time = cache_time taken as still valid.
IsFreshInclusive(c, key, t, cache_time) ==
    /\ key \in DOMAIN c
    /\ t - c[key].ts <= cache_time

\* cache_key in cache and time.time() - cached_time < cache_time
IsFresh(c, key, t, cache_time) ==
    /\ key \in DOMAIN c
    /\ t - c[key].ts < cache_time

\* The store done in two halves: the timestamp replaced, the old response kept.
StoreEntryTorn(c, key, t, r) ==
    [k \in DOMAIN c \cup {key} |->
        IF k = key
        THEN [ts |-> t, tsid |-> r.id,
              resp |-> IF key \in DOMAIN c THEN c[key].resp ELSE r]
        ELSE c[k]]

\* A store that keeps only the entry it writes.
StoreEntryEvicting(c, key, t, r) ==
    [k \in {key} |-> [ts |-> t, tsid |-> r.id, resp |-> r]]

\* cache[cache_key] = (time.time(), response): one tuple, one dict store.
\* tsid remembers which fetch's call supplied the timestamp.
StoreEntry(c, key, t, r) ==
    [k \in DOMAIN c \cup {key} |->
        IF k = key THEN [ts |-> t, tsid |-> r.id, resp |-> r] ELSE c[k]]

\* Every response stored, whatever its status.
ShouldCacheAny(r) == r.status # 0

\* if response.status_code == 200
ShouldCache(r) == r.status = 200

\* ----------------------------------------------- fetch_with_cache, stepwise
\* Entry into the call and the cache lookup.
Check(p, url, headers, cache_time) ==
    /\ pc[p] = "idle"
    /\ LET key == CacheKey(url, headers) IN
       IF IsFresh(cache, key, now, cache_time)
       THEN /\ pc' = [pc EXCEPT ![p] = "done"]
            /\ ret' = [ret EXCEPT ![p] =
                          [kind |-> "cached", resp |-> cache[key].resp, reqs |-> 0]]
       ELSE /\ pc' = [pc EXCEPT ![p] = "fetch"]
            /\ ret' = ret
    /\ req' = [req EXCEPT ![p] =
                  [url |-> url, headers |-> headers]]
    /\ UNCHANGED <<cache, now, fetches, issued, resp, notCache>>

\* response = requests.get(url, headers=headers) answering with a status.
FetchStatus(p, status) ==
    /\ pc[p] = "fetch"
    /\ fetches < MaxFetches
    /\ fetches' = fetches + 1
    /\ issued' = Append(issued, [by |-> p, status |-> status])
    /\ resp' = [resp EXCEPT ![p] = [status |-> status, id |-> fetches + 1]]
    /\ pc' = [pc EXCEPT ![p] = "store"]
    /\ UNCHANGED <<cache, now, req, ret, notCache>>

\* requests.get raising (connection error, timeout): the call raises.
FetchRaise(p) ==
    /\ pc[p] = "fetch"
    /\ fetches < MaxFetches
    /\ fetches' = fetches + 1
    /\ issued' = Append(issued, [by |-> p, status |-> 0])
    /\ pc' = [pc EXCEPT ![p] = "done"]
    /\ ret' = [ret EXCEPT ![p] = [kind |-> "raised", resp |-> NoResp, reqs |-> 1]]
    /\ UNCHANGED <<cache, now, req, resp, notCache>>

\* The status test, the store when it passes, and the return.
Store(p) ==
    /\ pc[p] = "store"
    /\ cache' = IF ShouldCache(resp[p])
                THEN StoreEntry(cache, CacheKey(req[p].url, req[p].headers),
                                now, resp[p])
                ELSE cache
    /\ pc' = [pc EXCEPT ![p] = "done"]
    /\ ret' = [ret EXCEPT ![p] = [kind |-> "fresh", resp |-> resp[p], reqs |-> 1]]
    /\ UNCHANGED <<now, fetches, issued, req, resp, notCache>>

\* The caller has the result; the request is over.
Finish(p) ==
    /\ pc[p] = "done"
    /\ pc' = [pc EXCEPT ![p] = "idle"]
    /\ req' = [req EXCEPT ![p] = NoReq]
    /\ resp' = [resp EXCEPT ![p] = NoResp]
    /\ ret' = [ret EXCEPT ![p] = NoRet]
    /\ UNCHANGED <<cache, now, fetches, issued, notCache>>

\* The clock moves on.
Tick ==
    /\ now < MaxTime
    /\ now' = now + 1
    /\ UNCHANGED <<cache, fetches, issued, pc, req, resp, ret, notCache>>

\* cache = {} at import, the clock at its origin, no request in progress.
CacheInit ==
    /\ cache = <<>>
    /\ now = 0
    /\ fetches = 0
    /\ calls = 0
    /\ issued = <<>>
    /\ pc = [p \in Procs |-> "idle"]
    /\ req = [p \in Procs |-> NoReq]
    /\ resp = [p \in Procs |-> NoResp]
    /\ ret = [p \in Procs |-> NoRet]

\* deforestation_cache = {'data': None, 'timestamp': 0, ...} at import.
DefoInit ==
    /\ deforestation_cache = [data |-> NoData, timestamp |-> 0]
    /\ lastGood = NoData
    /\ outcome = "none"
    /\ gfw_data = "unset"

\* No normalizer call and no handler call in progress.
NormIdle ==
    /\ data = JNull
    /\ result = NoResult
    /\ phase = "off"

RouteIdle ==
    /\ response = NoResp
    /\ reply = NoReply

Init == CacheInit /\ DefoInit /\ NormIdle /\ RouteIdle

Next ==
    \/ \E p \in Procs, r \in Requests, ct \in CacheTimes :
          Check(p, r[1], r[2], ct)
    \/ \E p \in Procs, status \in {200, 500} : FetchStatus(p, status)
    \/ \E p \in Procs : FetchRaise(p)
    \/ \E p \in Procs : Store(p)
    \/ \E p \in Procs : Finish(p)
    \/ Tick

Spec == Init /\ [][Next]_vars

TypeOK ==
    /\ now \in 0 .. MaxTime
    /\ fetches \in 0 .. MaxFetches
    /\ \A p \in Procs : pc[p] \in {"idle", "fetch", "store", "done"}
\* ============================================ get_deforestation_data
MaxCalls == 3
\* 'cache_duration': 86400
cache_duration == 86400
\* Seconds that pass between two calls, and during one fetch.
Gaps == {0, 1, cache_duration - 1, cache_duration}
FetchDelays == {0, 1}
\* get_gfw_data(): None on failure, else the payload's data ({} or statistics).
GfwResults == {"None", "{}", "stats"}
\* How many of the page's articles passed the keyword filter.
ArticleCounts == {0, 1}

\* deforestation_cache['data'] is not None and
\* time.time() - deforestation_cache['timestamp'] < cache_duration
DefoFresh(c, t) ==
    /\ c.data # NoData
    /\ t - c.timestamp < cache_duration

\* A try block in which a failed get_gfw_data fails the whole fetch.
TryScrapeGfwRequired(page, articles, gfw, n, t) ==
    IF page = "fail" \/ gfw = "None"
    THEN [kind |-> "raised"]
    ELSE [kind |-> "composite", id |-> n, timestamp |-> t,
          articles |-> articles, forest_data |-> gfw]

\* The try block: requests.get, raise_for_status and the parsing either raise
\* or give the composite; get_gfw_data never raises.
TryScrape(page, articles, gfw, n, t) ==
    IF page = "fail"
    THEN [kind |-> "raised"]
    ELSE [kind |-> "composite", id |-> n, timestamp |-> t,
          articles |-> articles,
          forest_data |-> IF gfw = "None" THEN "{}" ELSE gfw]

\* The handler with the stored data ignored: always the error record.
OnFailureNoStale(c, t) == [kind |-> "error", timestamp |-> t]

\* except Exception: the stored data when there is one, else an error record.
OnFailure(c, t) ==
    IF c.data # NoData THEN c.data ELSE [kind |-> "error", timestamp |-> t]

\* One call of get_deforestation_data, made gap seconds after the previous
\* one; a fetch takes delay seconds.
get_deforestation_data(gap, delay, page, articles, gfw) ==
    /\ calls < MaxCalls
    /\ calls' = calls + 1
    /\ LET t1 == now + gap IN
       IF DefoFresh(deforestation_cache, t1)
       THEN /\ result' = deforestation_cache.data
            /\ outcome' = "cached"
            /\ now' = t1
            /\ UNCHANGED <<deforestation_cache, lastGood, fetches, gfw_data>>
       ELSE LET t2 == t1 + delay
                r == TryScrape(page, articles, gfw, fetches + 1, t2)
            IN /\ now' = t2
               /\ fetches' = fetches + 1
               /\ IF r.kind = "raised"
                  THEN /\ result' = OnFailure(deforestation_cache, t2)
                       /\ outcome' = "failed"
                       /\ UNCHANGED <<deforestation_cache, lastGood, gfw_data>>
                  ELSE /\ result' = r
                       /\ outcome' = "built"
                       /\ deforestation_cache' = [data |-> r, timestamp |-> t2]
                       /\ lastGood' = r
                       /\ gfw_data' = gfw
    /\ UNCHANGED <<cache, procVars, data, phase, routeVars>>

DefoStart == CacheInit /\ DefoInit /\ NormIdle /\ RouteIdle

DefoNext ==
    \E gap \in Gaps, delay \in FetchDelays, page \in {"ok", "fail"},
       articles \in ArticleCounts, gfw \in GfwResults :
        get_deforestation_data(gap, delay, page, articles, gfw)

SpecDefo == DefoStart /\ [][DefoNext]_vars

\* ==================================================== process_aqi_data
\* The keys of a dict literal given as a set of <<key, value>> pairs.
DictOf(pairs) ==
    [k \in {p[1] : p \in pairs} |-> (CHOOSE p \in pairs : p[1] = k)[2]]

\* A key that is present with the value opt[1], or absent when opt is empty.
Field(key, opt) == IF Len(opt) = 0 THEN {} ELSE {<<key, opt[1]>>}

IsNumber(j) == j.t \in {"int", "float"}

\* How a block of code ends: with a value, or with an exception.
Returned(value) == [kind |-> "returned", value |-> value]
Raised(exc) == [kind |-> "raised", exc |-> exc]

\* str(x) of a decoded JSON scalar.
PyStr(j) ==
    CASE j.t = "str" -> j.v
      [] j.t = "null" -> "None"
      [] j.t = "int" -> ToString(j.v)
      [] OTHER -> "<repr>"

\* The ladder read with exclusive upper bounds.
AqiBandExclusive(aqi_value) ==
    IF aqi_value < 50 THEN [category |-> "Good", color |-> "#00e400"]
    ELSE IF aqi_value < 100 THEN [category |-> "Moderate", color |-> "#ffff00"]
    ELSE IF aqi_value < 150
         THEN [category |-> "Unhealthy for Sensitive Groups", color |-> "#ff7e00"]
    ELSE IF aqi_value < 200 THEN [category |-> "Unhealthy", color |-> "#ff0000"]
    ELSE IF aqi_value < 300
         THEN [category |-> "Very Unhealthy", color |-> "#99004c"]
    ELSE [category |-> "Hazardous", color |-> "#7e0023"]

\* The if/elif ladder over aqi_value.
AqiBand(aqi_value) ==
    IF aqi_value <= 50 THEN [category |-> "Good", color |-> "#00e400"]
    ELSE IF aqi_value <= 100 THEN [category |-> "Moderate", color |-> "#ffff00"]
    ELSE IF aqi_value <= 150
         THEN [category |-> "Unhealthy for Sensitive Groups", color |-> "#ff7e00"]
    ELSE IF aqi_value <= 200 THEN [category |-> "Unhealthy", color |-> "#ff0000"]
    ELSE IF aqi_value <= 300
         THEN [category |-> "Very Unhealthy", color |-> "#99004c"]
    ELSE [category |-> "Hazardous", color |-> "#7e0023"]

\* The ladder with a string ordered above every number instead of raising.
CategoryOfLoose(aqi) ==
    IF IsNumber(aqi) THEN Returned(AqiBand(aqi.v)) ELSE Returned(AqiBand(301))

\* aqi_value <= 50 ...: a TypeError unless aqi_value is a number.
CategoryOf(aqi) ==
    IF IsNumber(aqi) THEN Returned(AqiBand(aqi.v)) ELSE Raised("TypeError")

\* city: a dict gives its name (default 'Unknown'), a str itself.
CityName(city) ==
    IF city.t = "dict" THEN Get(city.v, "name", JStr("Unknown"))
    ELSE IF city.t = "str" THEN city
    ELSE JStr("Unknown")

\* time: a dict gives its s and iso (default ''), anything else its str().
TimeOf(time_data) ==
    IF time_data.t = "dict"
    THEN [s |-> Get(time_data.v, "s", JStr("")),
          iso |-> Get(time_data.v, "iso", JStr(""))]
    ELSE [s |-> JStr(PyStr(time_data)), iso |-> JStr(PyStr(time_data))]

\* The loop over iaqi.items(): objects with a v kept, numbers wrapped.
IaqiOf(iaqi) ==
    [k \in {x \in DOMAIN iaqi :
                \/ (iaqi[x].t = "dict" /\ "v" \in DOMAIN iaqi[x].v)
                \/ IsNumber(iaqi[x])} |->
        IF iaqi[k].t = "dict" THEN iaqi[k] ELSE JDict([v |-> iaqi[k]])]

\* The body of the try block, for a status-'ok' payload with an aqi.
AqiRecord(res, aqi) ==
    LET iaqi == Get(res, "iaqi", JDict(<<>>))
        base == [city |-> [name |-> CityName(Get(res, "city", JNull))],
                 aqi |-> aqi,
                 time |-> TimeOf(Get(res, "time", JDict(<<>>))),
                 dominantPollutant |-> Get(res, "dominentpol", JStr("Unknown"))]
        geo == IF "geo" \in DOMAIN res /\ res["geo"].t = "list"
                  /\ Len(res["geo"].v) >= 2
               THEN [geo |-> [lat |-> res["geo"].v[1], lng |-> res["geo"].v[2]]]
               ELSE <<>>
        forecast == IF "forecast" \in DOMAIN res /\ res["forecast"].t = "dict"
                    THEN [forecast |-> res["forecast"]]
                    ELSE <<>>
        band == CategoryOf(aqi)
    IN  IF iaqi.t # "dict" THEN Raised("AttributeError")
        ELSE IF band.kind = "raised" THEN band
        ELSE Returned(base @@ [iaqi |-> IaqiOf(iaqi.v)] @@ geo @@ forecast
                      @@ band.value)

\* The try block of process_aqi_data.
AqiBody(d) ==
    IF d.t # "dict" THEN Raised("AttributeError")
    ELSE LET status == Get(d.v, "status", JNull) IN
         IF status # JStr("ok")
         THEN Returned([error |-> "API returned non-OK status",
                        raw_status |-> status])
         ELSE LET res == Get(d.v, "data", JDict(<<>>)) IN
              IF res.t # "dict" THEN Raised("AttributeError")
              ELSE LET aqi == Get(res.v, "aqi", JNull) IN
                   IF aqi = JNull
                   THEN Returned([error |-> "No AQI data available for this location",
                                  raw_data |-> res])
                   ELSE AqiRecord(res.v, aqi)

\* The function with its except clause left out.
process_aqi_dataNoExcept(d) == AqiBody(d)

\* try: ... except Exception as e: the error record.
process_aqi_data(d) ==
    LET r == AqiBody(d) IN
    IF r.kind = "raised"
    THEN Returned([error |-> "Error processing data: " \o r.exc])
    ELSE r

\* The payloads process_aqi_data is tried on.
AqiInts == {-1, 0, 50, 51, 100, 101, 150, 151, 200, 201, 300, 301, 500}
AqiOpts == {<<>>, <<JNull>>, <<JStr("-")>>} \cup {<<JInt(n)>> : n \in AqiInts}
CityOpts ==
    {<<>>, <<JStr("Beijing")>>, <<JDict([name |-> JStr("Beijing")])>>,
     <<JDict(<<>>)>>}
TimeOpts ==
    {<<>>, <<JStr("2024-01-01 10:00:00")>>,
     <<JDict([s |-> JStr("2024-01-01 10:00:00"),
              iso |-> JStr("2024-01-01T10:00:00+08:00")])>>}
GeoOpts == {<<>>, <<JList(<<JInt(39), JInt(116)>>)>>, <<JList(<<JInt(39)>>)>>}
IaqiOpts ==
    {<<>>, <<JNull>>,
     <<JDict([pm25 |-> JDict([v |-> JInt(30)]), o3 |-> JInt(7),
              w |-> JStr("-")])>>}
ForecastOpts == {<<>>, <<JDict([daily |-> JDict(<<>>)])>>}
PolOpts == {<<>>, <<JStr("pm25")>>}

AqiResults ==
    {DictOf(Field("aqi", a) \cup Field("city", c) \cup Field("time", tm)
            \cup Field("geo", g) \cup Field("iaqi", iq)
            \cup Field("forecast", fc) \cup Field("dominentpol", dp)) :
        a \in AqiOpts, c \in CityOpts, tm \in TimeOpts, g \in GeoOpts,
        iq \in IaqiOpts, fc \in ForecastOpts, dp \in PolOpts}
StatusOpts == {<<>>, <<JNull>>, <<JStr("ok")>>, <<JStr("error")>>}
DataOpts ==
    {<<>>, <<JNull>>, <<JStr("Unknown station")>>}
    \cup {<<JDict(x)>> : x \in AqiResults}
AqiPayloads ==
    {JNull, JList(<<>>)}
    \cup {JDict(DictOf(Field("status", st) \cup Field("data", d))) :
            st \in StatusOpts, d \in DataOpts}

\* process_aqi_data(data) is called.
AqiCall ==
    /\ phase = "input"
    /\ result' = process_aqi_data(data)
    /\ phase' = "output"
    /\ UNCHANGED <<cacheVars, calls, defoVars, data, routeVars>>

AqiStart ==
    /\ CacheInit /\ DefoInit /\ RouteIdle
    /\ data \in AqiPayloads
    /\ result = NoResult
    /\ phase = "input"

AqiNext == AqiCall

SpecAqi == AqiStart /\ [][AqiNext]_vars

\* =================================================== process_bird_data
MaxSpecies == 12
MaxTail == 2
\* sorted_species[:10]
TopCount == 10

\* not data: None, an empty list, an empty dict.
Falsy(d) ==
    \/ d.t = "null"
    \/ (d.t = "list" /\ Len(d.v) = 0)
    \/ (d.t = "dict" /\ DOMAIN d.v = {})

\* A value that can be a dict key.
Hashable(j) == j.t \notin {"list", "dict"}

\* species = sighting.get('comName', 'Unknown')
SpeciesOf(sighting) == Get(sighting.v, "comName", JStr("Unknown"))

\* The position of name among the keys of the ordered dict, 0 when absent.
KeyIndex(table, name) ==
    IF \E i \in 1 .. Len(table) : table[i][1] = name
    THEN CHOOSE i \in 1 .. Len(table) : table[i][1] = name
    ELSE 0

\* The counting loop: a known key is incremented in place, a new key is added
\* at the end of the dict.
RECURSIVE CountSpecies(_, _)
CountSpecies(sightings, table) ==
    IF sightings = <<>> THEN table
    ELSE LET name == SpeciesOf(Head(sightings))
             i == KeyIndex(table, name)
         IN CountSpecies(Tail(sightings),
                IF i = 0 THEN Append(table, <<name, 1>>)
                ELSE [table EXCEPT ![i] = <<name, table[i][2] + 1>>])

\* An insertion that puts the item before the items of equal count.
InsertDescBeforeEqual(sorted, item) ==
    LET n == Cardinality({i \in 1 .. Len(sorted) : sorted[i][2] > item[2]})
    IN SubSeq(sorted, 1, n) \o <<item>> \o SubSeq(sorted, n + 1, Len(sorted))

\* The item goes behind every item whose count is at least its own.
InsertDesc(sorted, item) ==
    LET n == Cardinality({i \in 1 .. Len(sorted) : sorted[i][2] >= item[2]})
    IN SubSeq(sorted, 1, n) \o <<item>> \o SubSeq(sorted, n + 1, Len(sorted))

\* sorted(species_count.items(), key=lambda x: x[1], reverse=True): a stable
\* sort, the items taken in dict order.
RECURSIVE SortDesc(_, _)
SortDesc(items, sorted) ==
    IF items = <<>> THEN sorted
    ELSE SortDesc(Tail(items), InsertDesc(sorted, Head(items)))

\* dict(sorted_species[:10])
TopSpecies(sorted) == SubSeq(sorted, 1, IF Len(sorted) < TopCount
                                        THEN Len(sorted) ELSE TopCount)

\* An entry whose missing count and coordinates are left null.
ProcessedBirdNoDefaults(sighting) ==
    [species |-> Get(sighting.v, "comName", JStr("Unknown")),
     scientific_name |-> Get(sighting.v, "sciName", JStr("Unknown")),
     location |-> Get(sighting.v, "locName", JStr("Unknown")),
     observation_date |-> Get(sighting.v, "obsDt", JStr("Unknown")),
     count |-> Get(sighting.v, "howMany", JNull),
     coordinates |-> [lat |-> Get(sighting.v, "lat", JNull),
                      lng |-> Get(sighting.v, "lng", JNull)]]

\* One entry of processed_birds.
ProcessedBird(sighting) ==
    [species |-> Get(sighting.v, "comName", JStr("Unknown")),
     scientific_name |-> Get(sighting.v, "sciName", JStr("Unknown")),
     location |-> Get(sighting.v, "locName", JStr("Unknown")),
     observation_date |-> Get(sighting.v, "obsDt", JStr("Unknown")),
     count |-> Get(sighting.v, "howMany", JInt(1)),
     coordinates |-> [lat |-> Get(sighting.v, "lat", JInt(0)),
                      lng |-> Get(sighting.v, "lng", JInt(0))]]

\* The try block of process_bird_data.
BirdBody(d) ==
    IF Falsy(d) THEN Returned([birds |-> <<>>, counts |-> <<>>, total |-> 0])
    ELSE IF d.t # "list" THEN Raised("AttributeError")
    ELSE IF \E i \in 1 .. Len(d.v) : d.v[i].t # "dict"
         THEN Raised("AttributeError")
    ELSE IF \E i \in 1 .. Len(d.v) : ~Hashable(SpeciesOf(d.v[i]))
         THEN Raised("TypeError")
    ELSE Returned([birds |-> [i \in 1 .. Len(d.v) |-> ProcessedBird(d.v[i])],
                   counts |-> TopSpecies(SortDesc(CountSpecies(d.v, <<>>), <<>>)),
                   total |-> Len(d.v)])

\* try: ... except Exception as e: the error record.
process_bird_data(d) ==
    LET r == BirdBody(d) IN
    IF r.kind = "raised"
    THEN Returned([error |-> "Error processing data: " \o r.exc])
    ELSE r

\* The sighting lists process_bird_data is tried on: n different species
\* seen once each in turn, then up to MaxTail further sightings.
SpeciesName(i) == JStr("sp" \o ToString(i))
TailNames ==
    {<<>>, <<JNull>>, <<SpeciesName(1)>>, <<SpeciesName(MaxSpecies - 1)>>,
     <<SpeciesName(MaxSpecies)>>}
\* Which of the optional fields the further sightings carry.
Shapes == {{"howMany", "lat", "lng", "sciName", "locName", "obsDt"},
           {"lat", "lng", "sciName"}, {"howMany", "obsDt"}, {}}
Sighting(nameOpt, shape) ==
    JDict(DictOf(Field("comName", nameOpt)
                 \cup {<<"howMany", JInt(3)>> : x \in shape \cap {"howMany"}}
                 \cup {<<"lat", JInt(40)>> : x \in shape \cap {"lat"}}
                 \cup {<<"lng", JInt(-74)>> : x \in shape \cap {"lng"}}
                 \cup {<<"sciName", JStr("Genus species")>> :
                          x \in shape \cap {"sciName"}}
                 \cup {<<"locName", JStr("Central Park")>> :
                          x \in shape \cap {"locName"}}
                 \cup {<<"obsDt", JStr("2024-01-01 10:00")>> :
                          x \in shape \cap {"obsDt"}}))
FullShape == {"howMany", "lat", "lng", "sciName", "locName", "obsDt"}
TailSeqs == UNION {[1 .. n -> TailNames] : n \in 0 .. MaxTail}
BirdLists ==
    {JList([i \in 1 .. n |-> Sighting(<<SpeciesName(i)>>, FullShape)]
           \o [i \in 1 .. Len(tl) |-> Sighting(tl[i], sh)]) :
        n \in 0 .. MaxSpecies, tl \in TailSeqs, sh \in Shapes}
\* A sighting whose fields are all JSON null.
NullSighting ==
    JDict([comName |-> JNull, sciName |-> JNull, locName |-> JNull,
           obsDt |-> JNull, howMany |-> JNull, lat |-> JNull, lng |-> JNull])
BirdInputs ==
    BirdLists \cup {JNull, JDict(<<>>), JList(<<JNull>>),
                    JList(<<JDict([comName |-> JList(<<>>)])>>),
                    JList(<<NullSighting>>)}

\* process_bird_data(data) is called.
BirdCall ==
    /\ phase = "input"
    /\ result' = process_bird_data(data)
    /\ phase' = "output"
    /\ UNCHANGED <<cacheVars, calls, defoVars, data, routeVars>>

BirdStart ==
    /\ CacheInit /\ DefoInit /\ RouteIdle
    /\ data \in BirdInputs
    /\ result = NoResult
    /\ phase = "input"

BirdNext == BirdCall

SpecBird == BirdStart /\ [][BirdNext]_vars

\* =============================================== process_pollution_data
MaxMeasurements == 2

\* measurements = location.get('measurements', [])
MeasurementsOf(location) == Get(location.v, "measurements", JList(<<>>))
\* parameter = measurement.get('parameter', 'Unknown')
ParameterOf(measurement) == Get(measurement.v, "parameter", JStr("Unknown"))
\* value = measurement.get('value', 0)
ValueOf(measurement) == Get(measurement.v, "value", JInt(0))

\* The first statement of the location loop that raises, "" when none does:
\* location.get, the chained .get on coordinates, the iteration over
\* measurements, measurement.get, the dict lookup of the parameter.
LocationError(location) ==
    IF location.t # "dict" THEN "AttributeError"
    ELSE IF Get(location.v, "coordinates", JDict(<<>>)).t # "dict"
         THEN "AttributeError"
    ELSE IF MeasurementsOf(location).t # "list" THEN "TypeError"
    ELSE LET ms == MeasurementsOf(location).v
         IN IF \E j \in 1 .. Len(ms) : ms[j].t # "dict" THEN "AttributeError"
            ELSE IF \E j \in 1 .. Len(ms) : ~Hashable(ParameterOf(ms[j]))
                 THEN "TypeError"
            ELSE ""

\* One entry of locations.
LocData(location) ==
    LET coordinates == Get(location.v, "coordinates", JDict(<<>>)).v
        ms == MeasurementsOf(location).v
    IN [name |-> Get(location.v, "location", JStr("Unknown")),
        city |-> Get(location.v, "city", JStr("Unknown")),
        coordinates |-> [latitude |-> Get(coordinates, "latitude", JInt(0)),
                         longitude |-> Get(coordinates, "longitude", JInt(0))],
        measurements |->
            [j \in 1 .. Len(ms) |->
                [parameter |-> ParameterOf(ms[j]),
                 value |-> ValueOf(ms[j]),
                 unit |-> Get(ms[j].v, "unit", JStr("")),
                 lastUpdated |-> Get(ms[j].v, "lastUpdated", JStr("Unknown"))]]]

\* The measurements of all locations in the order the two loops visit them.
RECURSIVE AllMeasurements(_)
AllMeasurements(results) ==
    IF results = <<>> THEN <<>>
    ELSE MeasurementsOf(Head(results)).v \o AllMeasurements(Tail(results))

\* pollutant_counts and pollutant_values after the loops: a known parameter
\* is incremented and appended to, a new one is added at the end.
RECURSIVE Tally(_, _)
Tally(ms, tables) ==
    IF ms = <<>> THEN tables
    ELSE LET parameter == ParameterOf(Head(ms))
             i == KeyIndex(tables.counts, parameter)
         IN Tally(Tail(ms),
                IF i = 0
                THEN [counts |-> Append(tables.counts, <<parameter, 1>>),
                      values |-> Append(tables.values,
                                        <<parameter, <<ValueOf(Head(ms))>>>>)]
                ELSE [counts |-> [tables.counts EXCEPT
                                     ![i] = <<parameter, tables.counts[i][2] + 1>>],
                      values |-> [tables.values EXCEPT
                                     ![i] = <<parameter,
                                              Append(tables.values[i][2],
                                                     ValueOf(Head(ms)))>>]])

\* sum(values)
RECURSIVE SumOf(_)
SumOf(values) == IF values = <<>> THEN 0 ELSE Head(values).v + SumOf(Tail(values))

\* The float n / d, kept as the exact quotient.
Quotient(n, d) == [num |-> n, den |-> d]

\* A mean over the values that are not 0.
AverageOfNonZero(values) ==
    LET nonzero == {i \in 1 .. Len(values) : values[i].v # 0}
    IN Quotient(SumOf(values), IF nonzero = {} THEN 1 ELSE Cardinality(nonzero))

\* sum(values) / len(values) if values else 0
AverageOf(values) ==
    IF values # <<>> THEN Quotient(SumOf(values), Len(values)) ELSE Quotient(0, 1)

\* The try block of process_pollution_data.
PollutionBody(d) ==
    IF d.t # "dict" THEN Raised("AttributeError")
    ELSE LET results == Get(d.v, "results", JList(<<>>)) IN
    IF Falsy(results)
    THEN Returned([locations |-> <<>>, pollutants |-> <<>>, total |-> 0])
    ELSE IF results.t # "list" THEN Raised("AttributeError")
    ELSE IF \E i \in 1 .. Len(results.v) : LocationError(results.v[i]) # ""
         THEN LET i == CHOOSE k \in 1 .. Len(results.v) :
                          /\ LocationError(results.v[k]) # ""
                          /\ \A h \in 1 .. k - 1 : LocationError(results.v[h]) = ""
              IN Raised(LocationError(results.v[i]))
    ELSE LET tables == Tally(AllMeasurements(results.v),
                             [counts |-> <<>>, values |-> <<>>])
         IN IF \E i \in 1 .. Len(tables.values) :
                  \E j \in 1 .. Len(tables.values[i][2]) :
                      ~IsNumber(tables.values[i][2][j])
            THEN Raised("TypeError")
            ELSE Returned(
                   [locations |-> [i \in 1 .. Len(results.v) |->
                                      LocData(results.v[i])],
                    pollutants |->
                       [counts |-> tables.counts,
                        averages |-> [i \in 1 .. Len(tables.values) |->
                                        <<tables.values[i][1],
                                          AverageOf(tables.values[i][2])>>]],
                    total |-> Len(results.v)])

\* try: ... except Exception as e: the error record.
process_pollution_data(d) ==
    LET r == PollutionBody(d) IN
    IF r.kind = "raised"
    THEN Returned([error |-> "Error processing data: " \o r.exc])
    ELSE r

\* The payloads process_pollution_data is tried on: a first location with up
\* to MaxMeasurements measurements whose parameter and value are absent,
\* null or present, then possibly one of a few further locations.
ParameterOpts == {<<>>, <<JStr("pm25")>>, <<JStr("o3")>>}
ValueOpts == {<<>>, <<JNull>>, <<JInt(10)>>, <<JInt(25)>>}
Measurement(parameterOpt, valueOpt) ==
    JDict(DictOf(Field("parameter", parameterOpt) \cup Field("value", valueOpt)
                 \cup Field("unit", IF Len(parameterOpt) = 0 THEN <<>>
                                    ELSE <<JStr("ug/m3")>>)
                 \cup Field("lastUpdated", IF Len(valueOpt) = 0 THEN <<>>
                                           ELSE <<JStr("2024-01-01")>>)))
Measurements == {Measurement(p, v) : p \in ParameterOpts, v \in ValueOpts}
MeasurementLists ==
    UNION {[1 .. n -> Measurements] : n \in 0 .. MaxMeasurements}
CoordinateOpts ==
    {<<>>, <<JNull>>, <<JDict(<<>>)>>,
     <<JDict([latitude |-> JInt(52), longitude |-> JInt(13)])>>}
Location(nameOpt, coordinateOpt, measurementOpt) ==
    JDict(DictOf(Field("location", nameOpt) \cup Field("city", nameOpt)
                 \cup Field("coordinates", coordinateOpt)
                 \cup Field("measurements", measurementOpt)))
FirstLocations ==
    {Location(<<JStr("Station A")>>, c, <<JList(ms)>>) :
        c \in CoordinateOpts, ms \in MeasurementLists}
    \cup {Location(<<>>, <<>>, m) : m \in {<<>>, <<JNull>>}}
FurtherLocations ==
    {<<>>,
     <<Location(<<JStr("Station B")>>, <<>>,
                <<JList(<<Measurement(<<JStr("pm25")>>, <<JInt(40)>>)>>)>>)>>,
     <<Location(<<>>, <<>>,
                <<JList(<<Measurement(<<JStr("o3")>>, <<JInt(5)>>),
                          Measurement(<<>>, <<>>),
                          Measurement(<<JStr("o3")>>, <<>>)>>)>>)>>,
     <<Location(<<JStr("Station C")>>, <<>>, <<>>)>>}
PollutionPayloads ==
    {JDict([results |-> JList(<<first>> \o further)]) :
        first \in FirstLocations, further \in FurtherLocations}
    \cup {JNull, JDict(<<>>), JDict([results |-> JList(<<>>)]),
          JDict([results |-> JNull]), JDict([results |-> JList(<<JNull>>)])}

\* process_pollution_data(data) is called.
PollutionCall ==
    /\ phase = "input"
    /\ result' = process_pollution_data(data)
    /\ phase' = "output"
    /\ UNCHANGED <<cacheVars, calls, defoVars, data, routeVars>>

PollutionStart ==
    /\ CacheInit /\ DefoInit /\ RouteIdle
    /\ data \in PollutionPayloads
    /\ result = NoResult
    /\ phase = "input"

PollutionNext == PollutionCall

SpecPollution == PollutionStart /\ [][PollutionNext]_vars

\* ================================================ GET /api/aqi handler
\* fetch_with_cache(url, cache_time=300)
AqiCacheTime == 300
\* Seconds that pass between two requests to the handler.
RouteGaps == {0, 1, AqiCacheTime - 1, AqiCacheTime}

\* What the provider can answer: a body that is JSON or not.
JsonBody(j) == [json |-> TRUE, value |-> j]
NotJson == [json |-> FALSE, value |-> JNull]
ProviderBodies ==
    {JsonBody(JDict([status |-> JStr("ok"),
                     data |-> JDict([aqi |-> JInt(42),
                                     city |-> JDict([name |-> JStr("Beijing")])])])),
     JsonBody(JDict([status |-> JStr("ok"), data |-> JDict([aqi |-> JStr("-")])])),
     JsonBody(JDict([status |-> JStr("error"), data |-> JStr("Invalid key")])),
     NotJson}
Upstreams ==
    {[kind |-> "raise", status |-> 0, body |-> NotJson]}
    \cup {[kind |-> "response", status |-> st, body |-> b] :
             st \in {200, 500}, b \in ProviderBodies}
NoUpstream == [status |-> 0, id |-> 0, body |-> NotJson]

\* AQICN_API_KEY = os.environ.get("AQICN_API_KEY", "demo-key")
AQICN_API_KEY == "demo-key"

\* request.args.get of lat, lng and city: each absent, empty or given.
QueryArgs ==
    {<< <<>>, <<>>, <<>> >>,
     << <<"39.9">>, <<"116.4">>, <<>> >>,
     << <<"39.9">>, <<"">>, <<"delhi">> >>,
     << <<>>, <<"116.4">>, <<"delhi">> >>}
Truthy(opt) == Len(opt) > 0 /\ opt[1] # ""

\* The f-string url: the geo feed when lat and lng are given, else the city.
AqiUrl(lat, lng, city) ==
    IF Truthy(lat) /\ Truthy(lng)
    THEN "https://api.waqi.info/feed/geo:" \o lat[1] \o ";" \o lng[1]
         \o "/?token=" \o AQICN_API_KEY
    ELSE "https://api.waqi.info/feed/"
         \o (IF Len(city) = 0 THEN "beijing" ELSE city[1])
         \o "/?token=" \o AQICN_API_KEY

\* fetch_with_cache run from entry to return by one request at time t; up is
\* what requests.get does if it is called, n the number of that request.
FetchWithCache(c, t, url, headers, cache_time, up, n) ==
    LET key == CacheKey(url, headers) IN
    IF IsFresh(c, key, t, cache_time)
    THEN [cache |-> c, out |-> Returned(c[key].resp), fetched |-> FALSE]
    ELSE IF up.kind = "raise"
    THEN [cache |-> c, out |-> Raised("RequestException"), fetched |-> TRUE]
    ELSE LET r == [status |-> up.status, id |-> n, body |-> up.body] IN
         [cache |-> IF ShouldCache(r) THEN StoreEntry(c, key, t, r) ELSE c,
          out |-> Returned(r), fetched |-> TRUE]

\* The handler's answer once fetch_with_cache has returned response r.
AqiReply(r) ==
    IF r.status = 200
    THEN IF ~r.body.json
         THEN [code |-> 500, body |-> [error |-> "JSONDecodeError"]]
         ELSE [code |-> 200, body |-> process_aqi_data(r.body.value).value]
    ELSE [code |-> 500,
          body |-> [error |-> "Could not fetch AQI data", status |-> r.status]]

\* One request to GET /api/aqi, gap seconds after the previous one.
get_aqi_data(lat, lng, city, gap, up) ==
    /\ calls < MaxCalls
    /\ calls' = calls + 1
    /\ now' = now + gap
    /\ LET f == FetchWithCache(cache, now + gap, AqiUrl(lat, lng, city),
                               NoHeaders, AqiCacheTime, up, fetches + 1)
       IN /\ cache' = f.cache
          /\ fetches' = IF f.fetched THEN fetches + 1 ELSE fetches
          /\ IF f.out.kind = "raised"
             THEN /\ response' = NoUpstream
                  /\ reply' = [code |-> 500, body |-> [error |-> f.out.exc]]
             ELSE /\ response' = f.out.value
                  /\ reply' = AqiReply(f.out.value)
    /\ UNCHANGED <<procVars, defoVars, normVars>>

RouteStart ==
    /\ CacheInit /\ DefoInit /\ NormIdle
    /\ response = NoUpstream
    /\ reply = NoReply

RouteNext ==
    \E q \in QueryArgs, gap \in RouteGaps, up \in Upstreams :
        get_aqi_data(q[1], q[2], q[3], gap, up)

SpecRoute == RouteStart /\ [][RouteNext]_vars

\* ============================================ POST /api/calculate-impact
\* A JSON number with one decimal place, held in tenths.
JTenths(n) == [t |-> "float", tenths |-> n]

\* The texts float() and int() are tried on, with their value in tenths.
NumericText == [s \in {"4", "12.5"} |-> IF s = "4" THEN 40 ELSE 125]

\* float(x), in tenths.
ToFloat(j) ==
    IF j.t = "int" THEN Returned(10 * j.v)
    ELSE IF j.t = "float" THEN Returned(j.tenths)
    ELSE IF j.t = "str"
         THEN IF j.v \in DOMAIN NumericText THEN Returned(NumericText[j.v])
              ELSE Raised("ValueError")
    ELSE Raised("TypeError")

\* The integer part of a number of tenths, rounded towards zero.
Truncate(tenths) == IF tenths >= 0 THEN tenths \div 10 ELSE -((-tenths) \div 10)

\* int(x): a float is truncated, a text must be an integer literal.
ToInt(j) ==
    IF j.t = "int" THEN Returned(j.v)
    ELSE IF j.t = "float" THEN Returned(Truncate(j.tenths))
    ELSE IF j.t = "str"
         THEN IF j.v \in DOMAIN NumericText /\ NumericText[j.v] % 10 = 0
              THEN Returned(NumericText[j.v] \div 10)
              ELSE Raised("ValueError")
    ELSE Raised("TypeError")

\* The emission factors, in thousandths, hundredths and tenths.
transport_factors ==
    [k \in {"car", "electric_car", "public_transport", "carpool", "bicycle",
            "walking"} |->
        CASE k = "car" -> 192 [] k = "electric_car" -> 53
          [] k = "public_transport" -> 58 [] k = "carpool" -> 96
          [] OTHER -> 0]
energy_factors ==
    [k \in {"grid", "renewable", "natural_gas", "oil", "mixed"} |->
        CASE k = "grid" -> 30 [] k = "renewable" -> 2 [] k = "natural_gas" -> 20
          [] k = "oil" -> 35 [] OTHER -> 25]
diet_factors ==
    [k \in {"meat_heavy", "meat_medium", "pescatarian", "vegetarian", "vegan"} |->
        CASE k = "meat_heavy" -> 79 [] k = "meat_medium" -> 51
          [] k = "pescatarian" -> 39 [] k = "vegetarian" -> 33 [] OTHER -> 25]
shopping_factors ==
    [k \in {"minimal", "moderate", "frequent", "very_frequent"} |->
        CASE k = "minimal" -> 5 [] k = "moderate" -> 10 [] k = "frequent" -> 15
          [] OTHER -> 20]
\* Litres of water per day and hectares of land (in hundredths) by diet.
diet_water ==
    [k \in DOMAIN diet_factors |->
        CASE k = "meat_heavy" -> 5000 [] k = "meat_medium" -> 3800
          [] k = "pescatarian" -> 2800 [] k = "vegetarian" -> 2200
          [] OTHER -> 1700]
diet_land ==
    [k \in DOMAIN diet_factors |->
        CASE k = "meat_heavy" -> 200 [] k = "meat_medium" -> 120
          [] k = "pescatarian" -> 80 [] k = "vegetarian" -> 60 [] OTHER -> 40]

\* A lookup that charges nothing for a key it does not know.
FactorZeroWhenUnknown(factors, key, default) ==
    IF key.t = "str" /\ key.v \in DOMAIN factors THEN factors[key.v] ELSE 0

\* factors.get(key, default) for a key that is a JSON value.
Factor(factors, key, default) ==
    IF key.t = "str" /\ key.v \in DOMAIN factors THEN factors[key.v] ELSE default

\* A quantity of kilograms whole + frac / den with 0 <= frac < den, made
\* from x units of 1 / scale kg, where scale divides den.
FromUnits(x, scale, den) ==
    [whole |-> x \div scale, frac |-> (x % scale) * (den \div scale), den |-> den]

\* a + b for two quantities of one denominator.
Plus(a, b) ==
    [whole |-> a.whole + b.whole + ((a.frac + b.frac) \div a.den),
     frac |-> (a.frac + b.frac) % a.den,
     den |-> a.den]

\* round(kg / 1000, 2) in hundredths of a ton: the nearest multiple of 10 kg,
\* and at a tie the one the float falls to.
RoundTons(a, tieUp) ==
    LET q == a.whole \div 10
        r == a.whole % 10
    IN IF r < 5 THEN q
       ELSE IF r > 5 \/ a.frac > 0 THEN q + 1
       ELSE IF tieUp THEN q + 1 ELSE q

\* The seven advisories, in the order the handler tests them.
Advisories ==
    <<[category |-> "transport", impact |-> "high",
       title |-> "Consider public transit or carpooling",
       description |-> "Taking public transportation or sharing rides can reduce your carbon footprint significantly."],
      [category |-> "transport", impact |-> "high",
       title |-> "Reduce air travel",
       description |-> "Consider fewer flights or alternatives like train travel for shorter distances."],
      [category |-> "energy", impact |-> "high",
       title |-> "Switch to renewable energy",
       description |-> "Consider solar panels or a renewable energy provider for your home electricity."],
      [category |-> "diet", impact |-> "high",
       title |-> "Reduce meat consumption",
       description |-> "Try incorporating more plant-based meals into your diet to reduce your environmental impact."],
      [category |-> "diet", impact |-> "medium",
       title |-> "Choose local and seasonal foods",
       description |-> "Buying locally produced food reduces transportation emissions and supports local farmers."],
      [category |-> "waste", impact |-> "medium",
       title |-> "Increase recycling efforts",
       description |-> "Try to recycle more of your waste and compost food scraps if possible."],
      [category |-> "waste", impact |-> "medium",
       title |-> "Reduce consumption",
       description |-> "Consider buying fewer items and focusing on quality, durable products that last longer."]>>

\* x in [a, b] for a JSON value x.
IsOneOf(j, texts) == j.t = "str" /\ j.v \in texts

\* The flight test with the bound included.
FlightsAdvisedFromThree(flights_per_year) == flights_per_year >= 3

\* if flights_per_year > 3
FlightsAdvised(flights_per_year) == flights_per_year > 3

\* The list with the air travel advisory put last.
RecommendationsFlightsLast(p) ==
    (IF IsOneOf(p.transport_type, {"car", "electric_car"})
     THEN <<Advisories[1]>> ELSE <<>>)
    \o (IF p.energy_source # JStr("renewable") THEN <<Advisories[3]>> ELSE <<>>)
    \o (IF IsOneOf(p.diet_type, {"meat_heavy", "meat_medium"})
        THEN <<Advisories[4]>> ELSE <<>>)
    \o (IF p.local_food_percent < 400 THEN <<Advisories[5]>> ELSE <<>>)
    \o (IF p.recycling_rate < 600 THEN <<Advisories[6]>> ELSE <<>>)
    \o (IF IsOneOf(p.shopping_frequency, {"frequent", "very_frequent"})
        THEN <<Advisories[7]>> ELSE <<>>)
    \o (IF FlightsAdvised(p.flights_per_year) THEN <<Advisories[2]>> ELSE <<>>)

\* recommendations, from the profile p the handler read (numbers with a
\* decimal part in tenths).
Recommendations(p) ==
    (IF IsOneOf(p.transport_type, {"car", "electric_car"})
     THEN <<Advisories[1]>> ELSE <<>>)
    \o (IF FlightsAdvised(p.flights_per_year) THEN <<Advisories[2]>> ELSE <<>>)
    \o (IF p.energy_source # JStr("renewable") THEN <<Advisories[3]>> ELSE <<>>)
    \o (IF IsOneOf(p.diet_type, {"meat_heavy", "meat_medium"})
        THEN <<Advisories[4]>> ELSE <<>>)
    \o (IF p.local_food_percent < 400 THEN <<Advisories[5]>> ELSE <<>>)
    \o (IF p.recycling_rate < 600 THEN <<Advisories[6]>> ELSE <<>>)
    \o (IF IsOneOf(p.shopping_frequency, {"frequent", "very_frequent"})
        THEN <<Advisories[7]>> ELSE <<>>)

\* The six figures rounded to two decimals.
Figures ==
    {"carbon_footprint", "transportation", "flights", "home_energy", "diet",
     "waste"}

\* A total that leaves the flights out.
CarbonWithoutFlights(q) ==
    Plus(Plus(q.transportation_impact, q.home_energy_impact),
         Plus(q.diet_impact, q.waste_impact))

\* carbon_footprint = transportation_impact + flight_impact
\*                    + home_energy_impact + diet_impact + waste_impact
CarbonFootprint(q) ==
    Plus(Plus(Plus(q.transportation_impact, q.flight_impact),
              q.home_energy_impact),
         Plus(q.diet_impact, q.waste_impact))

\* A flight counted as 110 kg.
FlightImpactShortHaul(flights_per_year) == flights_per_year * 110

\* flight_impact = flights_per_year * 1100
FlightImpact(flights_per_year) == flights_per_year * 1100

\* The five components in kilograms, from the profile p the handler read.
Impacts(p) ==
    LET den == 40000 * (IF p.household_members > 1 THEN p.household_members ELSE 1)
    IN [transportation_impact |->
            FromUnits(p.commute_distance * 365
                        * Factor(transport_factors, p.transport_type, 192),
                      10000, den),
        flight_impact |-> FromUnits(FlightImpact(p.flights_per_year), 1, den),
        home_energy_impact |->
            FromUnits(p.home_size * 365
                        * Factor(energy_factors, p.energy_source, 30),
                      den \div 40, den),
        diet_impact |->
            FromUnits(365 * Factor(diet_factors, p.diet_type, 51)
                        * (4000 - p.local_food_percent),
                      40000, den),
        waste_impact |->
            FromUnits(1100 * (2000 - p.recycling_rate)
                        * Factor(shopping_factors, p.shopping_frequency, 10),
                      20000, den)]

\* The numeric fields in the order the handler converts them, each with its
\* conversion and its default.
NumericFields ==
    <<[key |-> "commute_distance", float |-> TRUE, default |-> JInt(20)],
      [key |-> "flights_per_year", float |-> FALSE, default |-> JInt(2)],
      [key |-> "home_size", float |-> TRUE, default |-> JInt(100)],
      [key |-> "household_members", float |-> FALSE, default |-> JInt(2)],
      [key |-> "local_food_percent", float |-> TRUE, default |-> JInt(30)],
      [key |-> "recycling_rate", float |-> TRUE, default |-> JInt(50)]>>

\* float(data.get(key, default)) or int(data.get(key, default))
Converted(d, i) ==
    LET f == NumericFields[i]
    IN IF f.float THEN ToFloat(Get(d.v, f.key, f.default))
       ELSE ToInt(Get(d.v, f.key, f.default))

\* The local variables after the reads of lines 249 to 264.
ProfileOf(d) ==
    [transport_type |-> Get(d.v, "transportation_type", JStr("car")),
     commute_distance |-> Converted(d, 1).value,
     flights_per_year |-> Converted(d, 2).value,
     home_size |-> Converted(d, 3).value,
     household_members |-> Converted(d, 4).value,
     energy_source |-> Get(d.v, "energy_source", JStr("grid")),
     diet_type |-> Get(d.v, "diet_type", JStr("meat_medium")),
     local_food_percent |-> Converted(d, 5).value,
     recycling_rate |-> Converted(d, 6).value,
     shopping_frequency |-> Get(d.v, "shopping_frequency", JStr("moderate"))]

\* The result dict, from the profile p, its components q and the set ups of
\* figures whose rounding goes up at a tie. Tons and hectares are held in
\* hundredths.
ResultOf(p, q, ups) ==
    [carbon_footprint |-> RoundTons(CarbonFootprint(q), "carbon_footprint" \in ups),
     water_footprint |-> 150 + Factor(diet_water, p.diet_type, 3800),
     land_footprint |-> 20 + Factor(diet_land, p.diet_type, 120),
     breakdown |->
        [transportation |-> RoundTons(q.transportation_impact,
                                      "transportation" \in ups),
         flights |-> RoundTons(q.flight_impact, "flights" \in ups),
         home_energy |-> RoundTons(q.home_energy_impact, "home_energy" \in ups),
         diet |-> RoundTons(q.diet_impact, "diet" \in ups),
         waste |-> RoundTons(q.waste_impact, "waste" \in ups)],
     recommendations |-> Recommendations(p)]

\* The try block of calculate_impact: the locals it ends with, or the first
\* exception.
ImpactBody(d, ups) ==
    IF d.t # "dict" THEN Raised("AttributeError")
    ELSE IF \E i \in 1 .. Len(NumericFields) : Converted(d, i).kind = "raised"
         THEN LET i == CHOOSE k \in 1 .. Len(NumericFields) :
                          /\ Converted(d, k).kind = "raised"
                          /\ \A h \in 1 .. k - 1 : Converted(d, h).kind # "raised"
              IN Raised(Converted(d, i).exc)
    ELSE LET p == ProfileOf(d) IN
         IF \E c \in {p.transport_type, p.energy_source, p.diet_type,
                      p.shopping_frequency} : ~Hashable(c)
         THEN Raised("TypeError")
         ELSE LET q == Impacts(p)
              IN Returned([profile |-> p,
                           impacts |-> q,
                           carbon_footprint |-> CarbonFootprint(q),
                           result |-> ResultOf(p, q, ups)])

\* return jsonify(result), or in the except clause
\* return jsonify({"error": str(e)}), 500
ImpactReply(r, ups) ==
    IF r.kind = "raised"
    THEN [code |-> 500, body |-> [error |-> r.exc]]
    ELSE [code |-> 200, body |-> r.value.result]

\* The request bodies calculate_impact is tried on: profiles whose fields are
\* absent or valid, and the bodies below with a missing or invalid part.
TransportOpts == {<<>>, <<JStr("bicycle")>>}
CommuteOpts == {<<>>, <<JTenths(125)>>}
FlightOpts == {<<>>, <<JInt(3)>>, <<JInt(4)>>}
HomeOpts == {<<>>, <<JInt(50)>>}
MemberOpts == {<<>>, <<JInt(3)>>}
EnergyOpts == {<<>>, <<JStr("renewable")>>}
DietOpts == {<<>>, <<JStr("vegan")>>}
LocalFoodOpts == {<<JInt(39)>>, <<JInt(40)>>}
RecyclingOpts == {<<>>, <<JInt(59)>>, <<JInt(60)>>}
ShoppingOpts == {<<>>, <<JStr("very_frequent")>>}
Profiles ==
    {JDict(DictOf(Field("transportation_type", tr) \cup Field("commute_distance", co)
                  \cup Field("flights_per_year", fl) \cup Field("home_size", ho)
                  \cup Field("household_members", me) \cup Field("energy_source", en)
                  \cup Field("diet_type", di) \cup Field("local_food_percent", lo)
                  \cup Field("recycling_rate", re)
                  \cup Field("shopping_frequency", sh))) :
        tr \in TransportOpts, co \in CommuteOpts, fl \in FlightOpts,
        ho \in HomeOpts, me \in MemberOpts, en \in EnergyOpts, di \in DietOpts,
        lo \in LocalFoodOpts, re \in RecyclingOpts, sh \in ShoppingOpts}
\* The profile of the documented example, written out in full.
ExampleProfile ==
    JDict([transportation_type |-> JStr("car"), commute_distance |-> JInt(20),
           flights_per_year |-> JInt(2), home_size |-> JInt(100),
           household_members |-> JInt(2), energy_source |-> JStr("grid"),
           diet_type |-> JStr("meat_medium"), local_food_percent |-> JInt(30),
           recycling_rate |-> JInt(50), shopping_frequency |-> JStr("moderate")])
\* Values float() or int() does not take, and texts they do.
InvalidNumbers == {JStr("abc"), JNull}
OddBodies ==
    {JNull, JList(<<>>), JDict(<<>>), ExampleProfile,
     JDict([transportation_type |-> JStr("electric_car"),
            diet_type |-> JStr("meat_heavy"), household_members |-> JInt(0),
            shopping_frequency |-> JStr("frequent")]),
     JDict([transportation_type |-> JStr("rocket"),
            energy_source |-> JStr("coal"), diet_type |-> JStr("keto"),
            shopping_frequency |-> JStr("bulk")]),
     JDict([flights_per_year |-> JInt(4), commute_distance |-> JStr("abc")]),
     JDict([flights_per_year |-> JTenths(39)]),
     JDict([flights_per_year |-> JStr("4")]),
     JDict([flights_per_year |-> JStr("12.5")]),
     JDict([commute_distance |-> JStr("12.5")])}
    \cup {JDict(DictOf({<<NumericFields[i].key, v>>})) :
             i \in 1 .. Len(NumericFields), v \in InvalidNumbers}
\* Profiles whose categories are missing, not among the known values, or null.
UnknownCategoryProfiles ==
    {JDict(DictOf(Field("transportation_type", tr) \cup Field("energy_source", en)
                  \cup Field("diet_type", di) \cup Field("commute_distance", co)
                  \cup Field("household_members", me)
                  \cup Field("local_food_percent", lo))) :
        tr \in {<<>>, <<JStr("rocket")>>, <<JNull>>},
        en \in {<<>>, <<JStr("coal")>>, <<JNull>>},
        di \in {<<>>, <<JStr("keto")>>, <<JNull>>},
        co \in CommuteOpts, me \in MemberOpts, lo \in LocalFoodOpts}
ImpactRequests == Profiles \cup OddBodies \cup UnknownCategoryProfiles

\* POST /api/calculate-impact with the JSON body data.
calculate_impact(ups) ==
    /\ phase = "input"
    /\ result' = ImpactBody(data, ups)
    /\ reply' = ImpactReply(result', ups)
    /\ phase' = "output"
    /\ UNCHANGED <<cacheVars, calls, defoVars, data, response>>

ImpactStart ==
    /\ CacheInit /\ DefoInit /\ RouteIdle
    /\ data \in ImpactRequests
    /\ result = NoResult
    /\ phase = "input"

ImpactNext == \E ups \in SUBSET Figures : calculate_impact(ups)

SpecImpact == ImpactStart /\ [][ImpactNext]_vars

\* ============================================= get_environmental_news
MaxLinks == 11
\* if len(articles) >= 10: break
ArticleLimit == 10

\* What reading an attribute or the text of an element gives: an exception,
\* None, or a text.
Fails == [t |-> "raise"]

\* str.strip() on the texts the elements carry.
Strip(text) ==
    IF text \in {" ", "  "} THEN ""
    ELSE IF text = " Padded story " THEN "Padded story"
    ELSE text

\* bool(x) for None and texts.
IsTruthy(j) == j.t = "str" /\ j.v # ""

\* title = link_elem.get_attribute("aria-label") or link_elem.text
TitleOf(elem) ==
    IF elem.label.t = "raise" THEN Fails
    ELSE IF IsTruthy(elem.label) THEN elem.label
    ELSE elem.text

\* The body of the loop raised for this element.
ElementFails(elem) == elem.href.t = "raise" \/ TitleOf(elem).t = "raise"

\* if not link or not title or link in seen: continue
Skipped(elem, seen) ==
    \/ ~IsTruthy(elem.href)
    \/ ~IsTruthy(TitleOf(elem))
    \/ elem.href.v \in seen

\* The record appended for an element, at time t.
Article(elem, t) ==
    [title |-> Strip(TitleOf(elem).v), source |-> "Guardian", date |-> t,
     link |-> elem.href.v, summary |-> ""]

\* The loop over links: an element that raises is logged and passed over,
\* one without link or title or with a link already seen is skipped, and
\* the loop ends with the tenth article.
RECURSIVE Collect(_, _, _, _)
Collect(links, seen, articles, t) ==
    IF links = <<>> THEN articles
    ELSE LET elem == Head(links) IN
         IF ElementFails(elem) \/ Skipped(elem, seen)
         THEN Collect(Tail(links), seen, articles, t)
         ELSE LET more == Append(articles, Article(elem, t))
              IN IF Len(more) >= ArticleLimit THEN more
                 ELSE Collect(Tail(links), seen \cup {elem.href.v}, more, t)

\* get_environmental_news on a page: get_driver, driver.get or find_elements
\* may raise, which the outer except logs; articles is returned as it is.
NewsBody(page, t) ==
    IF page.driver # "ok" THEN Returned(<<>>)
    ELSE Returned(Collect(page.links, {}, <<>>, t))

\* The pages get_environmental_news is tried on: n links to different
\* stories, with one further element before them and up to two after them.
Href(i) == JStr("https://www.theguardian.com/environment/story-" \o ToString(i))
Story(i) ==
    [href |-> Href(i), label |-> JStr("Story " \o ToString(i)), text |-> JStr("")]
OtherElements ==
    {[href |-> Fails, label |-> JStr("Story"), text |-> JStr("")],
     [href |-> JNull, label |-> JStr("Story"), text |-> JStr("")],
     [href |-> JStr(""), label |-> JStr("Story"), text |-> JStr("")],
     [href |-> Href(1), label |-> JStr("Story 1 again"), text |-> JStr("")],
     [href |-> Href(0), label |-> JStr(" "), text |-> JStr("Hidden")],
     [href |-> Href(0), label |-> JNull, text |-> JStr("Link text")],
     [href |-> Href(0), label |-> JStr(""), text |-> JStr("")],
     [href |-> Href(0), label |-> Fails, text |-> JStr("Link text")],
     [href |-> Href(0), label |-> JNull, text |-> Fails],
     [href |-> Href(MaxLinks + 1), label |-> JStr(" Padded story "),
      text |-> JStr("")]}
Before == {<<>>} \cup {<<e>> : e \in OtherElements}
After == Before \cup {<<e, f>> : e, f \in OtherElements}
DriverOutcomes == {"ok", "get_driver raises", "driver.get raises",
                   "find_elements raises"}
Pages ==
    {[driver |-> "ok",
      links |-> b \o [i \in 1 .. n |-> Story(i)] \o a] :
        n \in 0 .. MaxLinks, b \in Before, a \in After}
    \cup {[driver |-> o, links |-> <<Story(1)>>] : o \in DriverOutcomes}

\* get_environmental_news() is called.
get_environmental_news ==
    /\ phase = "input"
    /\ result' = NewsBody(data, now)
    /\ phase' = "output"
    /\ UNCHANGED <<cacheVars, calls, defoVars, data, routeVars>>

NewsStart ==
    /\ CacheInit /\ DefoInit /\ RouteIdle
    /\ data \in Pages
    /\ result = NoResult
    /\ phase = "input"

NewsNext == get_environmental_news

SpecNews == NewsStart /\ [][NewsNext]_vars

\* ================================================================ claims
KeyOf(p) == CacheKey(req[p].url, req[p].headers)

\* C1: a call whose key has an entry stamped t0 with now - t0 < cache_time
\* returns the stored response and makes no upstream request; with no entry
\* or now - t0 >= cache_time it goes on to the upstream request, and every
\* call that leaves the fetch position has made exactly one more request.
C1_TtlHitOrRefetch ==
    [][\A p \in Procs :
        /\ \A r \in Requests, ct \in CacheTimes :
              Check(p, r[1], r[2], ct) =>
                 LET key == CacheKey(r[1], r[2]) IN
                 IF key \in DOMAIN cache /\ now - cache[key].ts < ct
                 THEN /\ pc'[p] = "done"
                      /\ ret'[p] = [kind |-> "cached", resp |-> cache[key].resp,
                                    reqs |-> 0]
                      /\ fetches' = fetches
                 ELSE pc'[p] = "fetch"
        /\ (pc[p] = "fetch" /\ pc'[p] # "fetch") => fetches' = fetches + 1
      ]_vars

\* One request was served from an entry stored earlier than the present
\* time while another found the entry of its key expired and is fetching.
C1_Witness ==
    \E p, q \in Procs :
        /\ pc[p] = "done" /\ ret[p].kind = "cached"
        /\ KeyOf(p) \in DOMAIN cache /\ cache[KeyOf(p)].ts < now
        /\ pc[q] = "fetch"
        /\ KeyOf(q) \in DOMAIN cache /\ now - cache[KeyOf(q)].ts >= 1

\* C2: when the upstream request raises or answers with a status other than
\* 200, the cache is left exactly as it was and the caller gets this fetch's
\* own failure (the non-200 response, or the raised error), never a stored
\* response.
C2_FailureNotCached ==
    [][\A p \in Procs :
        /\ (pc[p] = "store" /\ resp[p].status # 200 /\ pc'[p] # "store") =>
              /\ cache' = cache
              /\ ret'[p] = [kind |-> "fresh", resp |-> resp[p], reqs |-> 1]
        /\ (pc[p] = "fetch" /\ pc'[p] = "done") =>
              /\ cache' = cache
              /\ ret'[p].kind = "raised"
      ]_vars

\* A call got a non-200 response back although its key has a stored entry.
C2_Witness ==
    \E p \in Procs :
        /\ pc[p] = "done" /\ ret[p].kind = "fresh"
        /\ ret[p].resp.status = 500
        /\ KeyOf(p) \in DOMAIN cache

\* C3: a request whose url and header name/value pairs equal those of a
\* request whose entry is stored and within the TTL is served from that
\* entry, whatever the order of the headers.
C3_HeaderOrderSameKey ==
    [][\A p \in Procs, r \in Requests, ct \in CacheTimes :
        Check(p, r[1], r[2], ct) =>
            \A r2 \in Requests :
                ( /\ r2[1] = r[1]
                  /\ HeaderPairs(r2[2]) = HeaderPairs(r[2])
                  /\ r2[2].none = r[2].none
                  /\ CacheKey(r2[1], r2[2]) \in DOMAIN cache
                  /\ now - cache[CacheKey(r2[1], r2[2])].ts < ct )
                => /\ pc'[p] = "done"
                   /\ ret'[p].kind = "cached"
                   /\ ret'[p].resp = cache[CacheKey(r2[1], r2[2])].resp
      ]_vars

\* C4: under every interleaving, each stored entry is one whole pair: its
\* timestamp and its response come from the same status-200 fetch, and every
\* finished call holds either the response of a fetch it made itself or the
\* response of a whole stored pair.
IsIssued(r) ==
    /\ r.id \in 1 .. Len(issued)
    /\ issued[r.id].status = r.status

C4_EntriesWhole ==
    /\ \A k \in DOMAIN cache :
          /\ cache[k].tsid = cache[k].resp.id
          /\ IsIssued(cache[k].resp)
          /\ cache[k].resp.status = 200
          /\ cache[k].ts \in 0 .. now
    /\ \A p \in Procs :
          /\ ret[p].kind = "fresh" =>
                /\ IsIssued(ret[p].resp)
                /\ issued[ret[p].resp.id].by = p
                /\ ret[p].resp = resp[p]
          /\ ret[p].kind = "cached" =>
                /\ IsIssued(ret[p].resp)
                /\ ret[p].resp.status = 200

\* Two requests each fetched the same key with status 200; the entry holds
\* the pair of one of them.
C4_Witness ==
    \E p, q \in Procs :
        /\ p # q
        /\ pc[p] = "done" /\ pc[q] = "done"
        /\ ret[p].kind = "fresh" /\ ret[q].kind = "fresh"
        /\ ret[p].resp.status = 200 /\ ret[q].resp.status = 200
        /\ KeyOf(p) = KeyOf(q)
        /\ cache[KeyOf(p)].resp = ret[q].resp
\* C5: when the fresh fetch of a call fails and an earlier call succeeded,
\* the call returns the composite most recently built with success, however
\* old; an error record is returned only by a failed call that no successful
\* call preceded; no call raises.
C5_ServeStaleOnFailure ==
    /\ result.kind # "raised"
    /\ (outcome = "failed" /\ lastGood # NoData) => result = lastGood
    /\ result.kind = "error" => (outcome = "failed" /\ lastGood = NoData)
    /\ outcome = "cached" => result = lastGood

\* A fetch failed more than cache_duration after the last success and the
\* call returned that old composite.
C5_Witness ==
    /\ outcome = "failed"
    /\ lastGood # NoData
    /\ result = lastGood
    /\ now - lastGood.timestamp > cache_duration
\* ---------------------------------------------- process_aqi_data claims
\* The payload is a dict whose status is 'ok'.
StatusOk(d) == d.t = "dict" /\ Get(d.v, "status", JNull) = JStr("ok")

\* The payload's data is a dict, and its aqi field (JNull when missing).
HasDataDict(d) == Get(d.v, "data", JDict(<<>>)).t = "dict"
AqiField(d) == Get(Get(d.v, "data", JDict(<<>>)).v, "aqi", JNull)
IaqiField(d) == Get(Get(d.v, "data", JDict(<<>>)).v, "iaqi", JDict(<<>>))

\* The six bands of the claim, each with inclusive bounds.
BandTable ==
    << [lo |-> -1000000, hi |-> 50, category |-> "Good", color |-> "#00e400"],
       [lo |-> 51, hi |-> 100, category |-> "Moderate", color |-> "#ffff00"],
       [lo |-> 101, hi |-> 150, category |-> "Unhealthy for Sensitive Groups",
        color |-> "#ff7e00"],
       [lo |-> 151, hi |-> 200, category |-> "Unhealthy", color |-> "#ff0000"],
       [lo |-> 201, hi |-> 300, category |-> "Very Unhealthy",
        color |-> "#99004c"],
       [lo |-> 301, hi |-> 1000000, category |-> "Hazardous",
        color |-> "#7e0023"] >>

\* Exactly one band holds n, and the record carries that band's pair.
LadderHolds(n, value) ==
    /\ Cardinality({i \in 1 .. Len(BandTable) :
                       BandTable[i].lo <= n /\ n <= BandTable[i].hi}) = 1
    /\ \A i \in 1 .. Len(BandTable) :
          (BandTable[i].lo <= n /\ n <= BandTable[i].hi) =>
             /\ "category" \in DOMAIN value /\ "color" \in DOMAIN value
             /\ value.category = BandTable[i].category
             /\ value.color = BandTable[i].color

\* C6 as stated: every status-'ok' payload with an integer AQI gets the
\* category and color of the band its AQI lies in.
C6_LadderEveryPayload ==
    (phase = "output" /\ StatusOk(data) /\ HasDataDict(data)
       /\ AqiField(data).t = "int") =>
        /\ result.kind = "returned"
        /\ LadderHolds(AqiField(data).v, result.value)

\* C6 amended: every status-'ok' payload with an integer AQI whose iaqi field
\* is absent or a mapping gets the category and color of the band its AQI
\* lies in, by the ladder with inclusive upper bounds.
C6_LadderInclusive ==
    (phase = "output" /\ StatusOk(data) /\ HasDataDict(data)
       /\ AqiField(data).t = "int" /\ IaqiField(data).t = "dict") =>
        /\ result.kind = "returned"
        /\ LadderHolds(AqiField(data).v, result.value)

\* AQI 51 with a per-pollutant mapping came out as Moderate.
C6_Witness ==
    /\ phase = "output" /\ StatusOk(data) /\ HasDataDict(data)
    /\ AqiField(data) = JInt(51)
    /\ "iaqi" \in DOMAIN Get(data.v, "data", JDict(<<>>)).v
    /\ IaqiField(data).t = "dict"
    /\ result.kind = "returned"
    /\ "category" \in DOMAIN result.value
    /\ result.value.category = "Moderate" /\ result.value.color = "#ffff00"

\* C7: a payload whose status is not 'ok' (or has no status) gives an error
\* record that carries the raw status and has no aqi, category or color; and
\* whatever the input, process_aqi_data returns and does not raise.
C7_NonOkStatusIsError ==
    phase = "output" =>
        /\ result.kind = "returned"
        /\ (data.t = "dict" /\ ~StatusOk(data)) =>
              /\ "error" \in DOMAIN result.value
              /\ "raw_status" \in DOMAIN result.value
              /\ result.value.raw_status = Get(data.v, "status", JNull)
              /\ DOMAIN result.value \cap {"aqi", "category", "color"} = {}

\* A payload with status 'error' gave the error record with that status, and
\* an input that is not a dict at all gave an error record too.
C7_Witness ==
    /\ phase = "output"
    /\ result.kind = "returned"
    /\ "error" \in DOMAIN result.value
    /\ \/ /\ data.t = "dict"
          /\ "status" \in DOMAIN data.v
          /\ data.v["status"] = JStr("error")
          /\ "data" \in DOMAIN data.v
          /\ result.value.raw_status = JStr("error")
       \/ data.t = "list"

\* C8: a status-'ok' payload without a usable numeric AQI (aqi missing, null
\* or not a number, or no data object at all) gives an error record and no
\* record with a category or color.
NoUsableAqi(d) == ~HasDataDict(d) \/ ~IsNumber(AqiField(d))

C8_NoAqiIsError ==
    (phase = "output" /\ StatusOk(data) /\ NoUsableAqi(data)) =>
        /\ result.kind = "returned"
        /\ "error" \in DOMAIN result.value
        /\ DOMAIN result.value \cap {"category", "color"} = {}

\* The AQI arrived as the string "-" and the call gave an error record.
C8_Witness ==
    /\ phase = "output" /\ StatusOk(data) /\ HasDataDict(data)
    /\ AqiField(data) = JStr("-")
    /\ result.kind = "returned"
    /\ "error" \in DOMAIN result.value
\* --------------------------------------------- process_bird_data claims
\* A non-empty list of sighting records.
IsSightingList(d) ==
    /\ d.t = "list" /\ Len(d.v) > 0
    /\ \A i \in 1 .. Len(d.v) : d.v[i].t = "dict" /\ Hashable(SpeciesOf(d.v[i]))

NameAt(d, i) ==
    IF "comName" \in DOMAIN d.v[i].v THEN d.v[i].v["comName"] ELSE JStr("Unknown")
NamesIn(d) == {NameAt(d, i) : i \in 1 .. Len(d.v)}
Occurrences(d, x) == Cardinality({i \in 1 .. Len(d.v) : NameAt(d, i) = x})
FirstSeen(d, x) ==
    CHOOSE i \in 1 .. Len(d.v) :
        NameAt(d, i) = x /\ \A j \in 1 .. i - 1 : NameAt(d, j) # x
\* x comes before y: more sightings, or as many and seen first.
RanksBefore(d, x, y) ==
    \/ Occurrences(d, x) > Occurrences(d, y)
    \/ (Occurrences(d, x) = Occurrences(d, y) /\ FirstSeen(d, x) < FirstSeen(d, y))

\* C10: the counts table maps each listed name to its number of sightings,
\* has min(10, distinct names) entries in descending count order with equal
\* counts in first-seen order, and leaves a name out only when ten listed
\* names rank before it.
C10_TopTenCounts ==
    (phase = "output" /\ IsSightingList(data)) =>
        /\ result.kind = "returned"
        /\ "counts" \in DOMAIN result.value
        /\ LET counts == result.value.counts
               listed == {counts[j][1] : j \in 1 .. Len(counts)}
           IN /\ \A j \in 1 .. Len(counts) :
                    /\ counts[j][1] \in NamesIn(data)
                    /\ counts[j][2] = Occurrences(data, counts[j][1])
              /\ Cardinality(listed) = Len(counts)
              /\ Len(counts) = IF Cardinality(NamesIn(data)) < 10
                               THEN Cardinality(NamesIn(data)) ELSE 10
              /\ \A j, k \in 1 .. Len(counts) :
                    j < k => RanksBefore(data, counts[j][1], counts[k][1])
              /\ \A x \in NamesIn(data) \ listed :
                    Cardinality({y \in listed : RanksBefore(data, y, x)}) >= 10

\* More than ten species were seen, a species first seen after the tenth
\* heads the table, and one seen among the first ten is left out.
C10_Witness ==
    /\ phase = "output" /\ IsSightingList(data)
    /\ result.kind = "returned"
    /\ "counts" \in DOMAIN result.value
    /\ Len(result.value.counts) = 10
    /\ Cardinality(NamesIn(data)) > 10
    /\ FirstSeen(data, result.value.counts[1][1]) > 10
    /\ \E i \in 1 .. 10 :
          \A j \in 1 .. 10 : result.value.counts[j][1] # NameAt(data, i)
    /\ \E j \in 1 .. 9 :
          result.value.counts[j][2] = result.value.counts[j + 1][2]

\* A list, possibly empty, of sighting records.
IsRecordList(d) ==
    /\ d.t = "list"
    /\ \A i \in 1 .. Len(d.v) : d.v[i].t = "dict" /\ Hashable(SpeciesOf(d.v[i]))

\* The observation process_bird_data is to make of record i.
ObservationOf(d, i) ==
    LET rec == d.v[i].v
    IN [species |-> NameAt(d, i),
        scientific_name |->
            IF "sciName" \in DOMAIN rec THEN rec["sciName"] ELSE JStr("Unknown"),
        location |->
            IF "locName" \in DOMAIN rec THEN rec["locName"] ELSE JStr("Unknown"),
        observation_date |->
            IF "obsDt" \in DOMAIN rec THEN rec["obsDt"] ELSE JStr("Unknown"),
        count |-> IF "howMany" \in DOMAIN rec THEN rec["howMany"] ELSE JInt(1),
        coordinates |->
            [lat |-> IF "lat" \in DOMAIN rec THEN rec["lat"] ELSE JInt(0),
             lng |-> IF "lng" \in DOMAIN rec THEN rec["lng"] ELSE JInt(0)]]

\* C11: on every list of sighting records process_bird_data returns a result
\* and no error record: the empty list gives {birds: [], counts: {}, total: 0};
\* any other list gives one observation per record in input order, total equal
\* to the number of records, count 1 where howMany is missing and coordinates
\* 0 where lat or lng is missing.
C11_OneObservationPerRecord ==
    (phase = "output" /\ IsRecordList(data)) =>
        /\ result.kind = "returned"
        /\ "error" \notin DOMAIN result.value
        /\ Len(data.v) = 0 =>
              result.value = [birds |-> <<>>, counts |-> <<>>, total |-> 0]
        /\ Len(data.v) > 0 =>
              /\ result.value.total = Len(data.v)
              /\ Len(result.value.birds) = Len(data.v)
              /\ \A i \in 1 .. Len(data.v) :
                    result.value.birds[i] = ObservationOf(data, i)

\* More records than the table has rows, the last of them without howMany,
\* lat and lng: total counts the records and the defaults are filled in.
C11_Witness ==
    /\ phase = "output" /\ IsRecordList(data)
    /\ Len(data.v) > 10
    /\ result.kind = "returned"
    /\ "total" \in DOMAIN result.value
    /\ result.value.total = Len(data.v)
    /\ result.value.total > Len(result.value.counts)
    /\ LET n == Len(data.v)
       IN /\ DOMAIN data.v[n].v \cap {"howMany", "lat", "lng"} = {}
          /\ result.value.birds[n].count = JInt(1)
          /\ result.value.birds[n].coordinates = [lat |-> JInt(0), lng |-> JInt(0)]
\* ----------------------------------------- process_pollution_data claims
\* A payload with a non-empty results list of location records.
HasResults(d) ==
    /\ d.t = "dict" /\ "results" \in DOMAIN d.v
    /\ d.v["results"].t = "list" /\ Len(d.v["results"].v) > 0
    /\ \A i \in 1 .. Len(d.v["results"].v) : d.v["results"].v[i].t = "dict"

\* Every location has coordinates that are absent or a mapping and
\* measurements that are absent or a list of records whose value is absent
\* or a number.
WellFormedLocations(d) ==
    \A i \in 1 .. Len(d.v["results"].v) :
        LET loc == d.v["results"].v[i].v IN
        /\ "coordinates" \in DOMAIN loc => loc["coordinates"].t = "dict"
        /\ "measurements" \in DOMAIN loc =>
              /\ loc["measurements"].t = "list"
              /\ \A j \in 1 .. Len(loc["measurements"].v) :
                    LET m == loc["measurements"].v[j] IN
                    /\ m.t = "dict"
                    /\ "value" \in DOMAIN m.v => IsNumber(m.v["value"])

\* The measurements of location i, none when the key is missing.
MeasurementList(d, i) ==
    LET loc == d.v["results"].v[i].v
    IN IF "measurements" \in DOMAIN loc THEN loc["measurements"].v ELSE <<>>
\* The (location, measurement) positions of the payload.
Positions(d) ==
    UNION {{<<i, j>> : j \in 1 .. Len(MeasurementList(d, i))} :
              i \in 1 .. Len(d.v["results"].v)}
ParameterAt(d, pos) ==
    LET m == MeasurementList(d, pos[1])[pos[2]].v
    IN IF "parameter" \in DOMAIN m THEN m["parameter"] ELSE JStr("Unknown")
NumberAt(d, pos) ==
    LET m == MeasurementList(d, pos[1])[pos[2]].v
    IN IF "value" \in DOMAIN m THEN m["value"].v ELSE 0
PositionsOf(d, parameter) ==
    {pos \in Positions(d) : ParameterAt(d, pos) = parameter}
RECURSIVE SumAt(_, _)
SumAt(d, S) ==
    IF S = {} THEN 0
    ELSE LET pos == CHOOSE x \in S : TRUE
         IN NumberAt(d, pos) + SumAt(d, S \ {pos})

\* What the claim says of the two tables of a returned result.
TablesAgree(d, value) ==
    LET counts == value.pollutants.counts
        averages == value.pollutants.averages
        parameters == {ParameterAt(d, pos) : pos \in Positions(d)}
    IN /\ {counts[k][1] : k \in 1 .. Len(counts)} = parameters
       /\ {averages[k][1] : k \in 1 .. Len(averages)} = parameters
       /\ Len(counts) = Cardinality(parameters)
       /\ Len(averages) = Cardinality(parameters)
       /\ \A k \in 1 .. Len(counts) :
             counts[k][2] = Cardinality(PositionsOf(d, counts[k][1]))
       /\ \A k \in 1 .. Len(averages) :
             LET n == Cardinality(PositionsOf(d, averages[k][1]))
             IN /\ n > 0 /\ averages[k][2].den > 0
                /\ averages[k][2].num * n
                      = SumAt(d, PositionsOf(d, averages[k][1])) * averages[k][2].den

\* C12 as stated: for every payload with a non-empty results list the result
\* carries, per parameter, the number of measurements with that parameter
\* over all locations and their sum divided by that number, for exactly the
\* parameters that occur.
C12_EveryPayload ==
    (phase = "output" /\ HasResults(data)) =>
        /\ result.kind = "returned"
        /\ "pollutants" \in DOMAIN result.value
        /\ TablesAgree(data, result.value)

\* C12 amended: the same, for the payloads whose coordinates are absent or a
\* mapping, whose measurements are absent or a list, and whose values are
\* absent or numbers.
C12_CountsAndAverages ==
    (phase = "output" /\ HasResults(data) /\ WellFormedLocations(data)) =>
        /\ result.kind = "returned"
        /\ "pollutants" \in DOMAIN result.value
        /\ TablesAgree(data, result.value)

\* Two locations measure the same parameter three times, once without a
\* value, and the mean is the sum over all three.
C12_Witness ==
    /\ phase = "output" /\ HasResults(data) /\ WellFormedLocations(data)
    /\ Len(data.v["results"].v) = 2
    /\ result.kind = "returned"
    /\ "pollutants" \in DOMAIN result.value
    /\ Len(result.value.pollutants.counts) = 1
    /\ result.value.pollutants.counts[1] = <<JStr("pm25"), 3>>
    /\ result.value.pollutants.averages[1] = <<JStr("pm25"), Quotient(50, 3)>>
    /\ \E pos \in Positions(data) :
          "value" \notin DOMAIN MeasurementList(data, pos[1])[pos[2]].v
\* ------------------------------------------------- GET /api/aqi claims
\* The provider answered HTTP 200 with a JSON payload whose status is 'ok'.
ProviderSuccess ==
    /\ response.status = 200
    /\ response.body.json
    /\ StatusOk(response.body.value)

\* C9: when the provider reports a non-success status (a non-200 HTTP status,
\* or a 200 whose payload status is not 'ok') the handler answers HTTP 500
\* with an error object; HTTP 200 or a canonical record is answered only when
\* the provider reported success.
C9_UpstreamErrorIs500 ==
    reply.code # 0 =>
        /\ ~ProviderSuccess =>
              (reply.code = 500 /\ "error" \in DOMAIN reply.body)
        /\ (reply.code = 200 \/ "error" \notin DOMAIN reply.body) =>
              ProviderSuccess
\* ------------------------------------------ POST /api/calculate-impact claims
\* The handler answered with an impact result.
Accepted == phase = "output" /\ reply.code = 200 /\ result.kind = "returned"

\* The sum of the five breakdown entries, in hundredths of a ton.
BreakdownSum(b) ==
    b.transportation + b.flights + b.home_energy + b.diet + b.waste

\* C13: for every accepted profile the five breakdown entries sum to
\* carbon_footprint up to the rounding of the six figures to two decimals,
\* 0.005 each, so the two differ by at most 0.03 tons.
C13_BreakdownSumsToTotal ==
    Accepted =>
        LET d == BreakdownSum(reply.body.breakdown) - reply.body.carbon_footprint
        IN -3 <= d /\ d <= 3

\* A profile with flights whose rounded entries do not add up to the rounded
\* total exactly.
C13_Witness ==
    /\ Accepted
    /\ reply.body.breakdown.flights > 0
    /\ BreakdownSum(reply.body.breakdown) # reply.body.carbon_footprint

\* A quantity in thousandths of a kilogram, rounded down.
Milli(a) == a.whole * 1000 + (a.frac * 1000) \div a.den
\* The quantity is exactly n thousandths of a kilogram.
IsMilli(a, n) == Milli(a) = n /\ (a.frac * 1000) % a.den = 0
\* The quantity rounds to the stated value x, given in units of 1/1000 kg
\* with its last stated digit worth u of them.
About(a, x, u) == 2 * (Milli(a) - x) <= u /\ 2 * (x - Milli(a)) <= u

\* C14 as stated: the example profile gives transportation 1401.6 kg,
\* flights 2200 kg, home energy 5475 kg, diet 1721.99 kg (approx), waste
\* 825 kg, a total of about 11623.6 kg and carbon_footprint 11.62.
C14_ExampleAsStated ==
    (Accepted /\ data = ExampleProfile) =>
        /\ IsMilli(result.value.impacts.transportation_impact, 1401600)
        /\ IsMilli(result.value.impacts.flight_impact, 2200000)
        /\ IsMilli(result.value.impacts.home_energy_impact, 5475000)
        /\ About(result.value.impacts.diet_impact, 1721990, 10)
        /\ IsMilli(result.value.impacts.waste_impact, 825000)
        /\ About(result.value.carbon_footprint, 11623600, 100)
        /\ reply.body.carbon_footprint = 1162

\* C14 amended: the example profile gives transportation 1401.6 kg, flights
\* 2200 kg, home energy 5475 kg, diet 1721.8875 kg, waste 825 kg, a total of
\* 11623.4875 kg and carbon_footprint 11.62.
C14_Example ==
    (Accepted /\ data = ExampleProfile) =>
        /\ IsMilli(result.value.impacts.transportation_impact, 1401600)
        /\ IsMilli(result.value.impacts.flight_impact, 2200000)
        /\ IsMilli(result.value.impacts.home_energy_impact, 5475000)
        /\ result.value.impacts.diet_impact.whole = 1721
        /\ result.value.impacts.diet_impact.frac * 10000
              = 8875 * result.value.impacts.diet_impact.den
        /\ IsMilli(result.value.impacts.waste_impact, 825000)
        /\ result.value.carbon_footprint.whole = 11623
        /\ result.value.carbon_footprint.frac * 10000
              = 4875 * result.value.carbon_footprint.den
        /\ reply.body.carbon_footprint = 1162

\* The example profile was posted and answered with 11.62 tons.
C14_Witness ==
    /\ Accepted /\ data = ExampleProfile
    /\ reply.body.carbon_footprint = 1162
    /\ reply.body.breakdown.diet = 172

\* The advisory with this title is in the list.
Advised(recommendations, title) ==
    \E i \in 1 .. Len(recommendations) : recommendations[i].title = title

\* C15: the result holds the 'Reduce air travel' advisory exactly when
\* flights_per_year is above 3: not at 3, at 4 it does.
C15_AirTravelAboveThree ==
    Accepted =>
        /\ Advised(reply.body.recommendations, "Reduce air travel")
              <=> result.value.profile.flights_per_year > 3
        /\ ("flights_per_year" \in DOMAIN data.v
              /\ data.v["flights_per_year"] = JInt(3))
              => ~Advised(reply.body.recommendations, "Reduce air travel")
        /\ ("flights_per_year" \in DOMAIN data.v
              /\ data.v["flights_per_year"] = JInt(4))
              => Advised(reply.body.recommendations, "Reduce air travel")

\* Four flights a year and nothing else to advise on.
C15_Witness ==
    /\ Accepted
    /\ "flights_per_year" \in DOMAIN data.v
    /\ data.v["flights_per_year"] = JInt(4)
    /\ Len(reply.body.recommendations) = 1
    /\ reply.body.recommendations[1].title = "Reduce air travel"

\* The condition of each of the seven advisories, on the values the handler
\* read.
AdvisoryHolds(p) ==
    <<p.transport_type \in {JStr("car"), JStr("electric_car")},
      p.flights_per_year > 3,
      p.energy_source # JStr("renewable"),
      p.diet_type \in {JStr("meat_heavy"), JStr("meat_medium")},
      p.local_food_percent < 400,
      p.recycling_rate < 600,
      p.shopping_frequency \in {JStr("frequent"), JStr("very_frequent")}>>

\* The place of a record among the seven advisories, 0 when it is none.
AdvisoryIndex(r) ==
    IF \E i \in 1 .. 7 : Advisories[i] = r
    THEN CHOOSE i \in 1 .. 7 : Advisories[i] = r
    ELSE 0

\* C16: the recommendations are the advisories whose condition holds, each
\* once, in the fixed order of the seven.
C16_AdvisorySubsequence ==
    Accepted =>
        LET recs == reply.body.recommendations
            holds == AdvisoryHolds(result.value.profile)
        IN /\ Len(recs) <= 7
           /\ \A j \in 1 .. Len(recs) :
                 AdvisoryIndex(recs[j]) # 0 /\ holds[AdvisoryIndex(recs[j])]
           /\ \A i \in 1 .. 7 :
                 holds[i] => \E j \in 1 .. Len(recs) : recs[j] = Advisories[i]
           /\ \A j, k \in 1 .. Len(recs) :
                 j < k => AdvisoryIndex(recs[j]) < AdvisoryIndex(recs[k])

\* All seven conditions hold and all seven advisories are given in order.
C16_Witness ==
    /\ Accepted
    /\ reply.body.recommendations = Advisories
    /\ \A i \in 1 .. 7 : AdvisoryHolds(result.value.profile)[i]

\* float() or int(), whichever the field is read with.
Convert(f, j) == IF f.float THEN ToFloat(j) ELSE ToInt(j)

\* The value the claim has a numeric field resolve to: the one given when it
\* is there and numeric, the default otherwise.
ResolvedTo(d, f) ==
    IF d.t = "dict" /\ f.key \in DOMAIN d.v
       /\ Convert(f, d.v[f.key]).kind = "returned"
    THEN Convert(f, d.v[f.key]).value
    ELSE Convert(f, f.default).value

\* C17: a request whose numeric fields are missing or not numbers, or that
\* has no JSON body, is answered with an impact result computed with the
\* defaults in their place, never with an error response.
C17_InvalidFieldsDefaulted ==
    phase = "output" =>
        /\ reply.code = 200
        /\ "error" \notin DOMAIN reply.body
        /\ result.kind = "returned"
        /\ \A i \in 1 .. Len(NumericFields) :
              result.value.profile[NumericFields[i].key]
                 = ResolvedTo(data, NumericFields[i])
\* ----------------------------------------- get_environmental_news claims
\* The element at place i can be read and has a link and a title.
Readable(page, i) ==
    LET e == page.links[i]
    IN /\ e.href.t = "str" /\ e.href.v # ""
       /\ e.label.t # "raise"
       /\ \/ (e.label.t = "str" /\ e.label.v # "")
          \/ (e.text.t = "str" /\ e.text.v # "")
\* The place of the first readable element of the page with this link.
FirstWithLink(page, link) ==
    CHOOSE i \in 1 .. Len(page.links) :
        /\ Readable(page, i) /\ page.links[i].href.v = link
        /\ \A h \in 1 .. i - 1 :
              ~(Readable(page, h) /\ page.links[h].href.v = link)

\* C18: whatever elements the page has and whichever of them fail, the call
\* returns at most 10 articles, in page order, with pairwise distinct links
\* and non-empty titles and links; it returns no article when the driver or
\* the page fails; and it never raises.
C18_AtMostTenDistinctTitled ==
    phase = "output" =>
        /\ result.kind = "returned"
        /\ Len(result.value) <= 10
        /\ data.driver # "ok" => result.value = <<>>
        /\ \A j \in 1 .. Len(result.value) :
              /\ result.value[j].title # ""
              /\ result.value[j].link # ""
              /\ \E i \in 1 .. Len(data.links) :
                    Readable(data, i) /\ data.links[i].href.v = result.value[j].link
        /\ \A j, k \in 1 .. Len(result.value) :
              j < k => /\ result.value[j].link # result.value[k].link
                       /\ FirstWithLink(data, result.value[j].link)
                             < FirstWithLink(data, result.value[k].link)
\* ------------------------------------------- fetch_with_cache tier claims
\* C19: no step removes a cache entry; an entry changes only when a call for
\* its key stores the status-200 response it has just fetched; and a step of
\* a call leaves the entries of all keys other than its own as they were.
C19_EntriesKeptAndOwned ==
    [][/\ DOMAIN cache \subseteq DOMAIN cache'
       /\ \A k \in DOMAIN cache :
             cache'[k] # cache[k] =>
                \E p \in Procs :
                   /\ pc[p] = "store" /\ pc'[p] = "done"
                   /\ KeyOf(p) = k
                   /\ resp[p].status = 200
                   /\ cache'[k].resp = resp[p]
       /\ \A p \in Procs :
             pc'[p] # pc[p] =>
                \A k \in DOMAIN cache' :
                   (k # KeyOf(p) /\ k # CacheKey(req'[p].url, req'[p].headers)) =>
                      (k \in DOMAIN cache /\ cache'[k] = cache[k])
      ]_vars

\* One call fetched its key twice with status 200, the entry now holds the
\* second response, stored later than the clock's origin.
C19_Witness ==
    /\ Len(issued) = 2
    /\ issued[1].status = 200 /\ issued[2].status = 200
    /\ issued[1].by = issued[2].by
    /\ Cardinality(DOMAIN cache) = 1
    /\ \A k \in DOMAIN cache : cache[k].resp.id = 2 /\ cache[k].ts > 0

\* C20: every cache entry is a pair of a timestamp not later than the
\* current time and a response of status 200; a response of another status
\* that a call has fetched is in no entry; every response served from the
\* cache has status 200.
C20_OnlyOkResponsesStored ==
    /\ \A k \in DOMAIN cache :
          /\ DOMAIN cache[k] = {"ts", "tsid", "resp"}
          /\ cache[k].resp.status = 200
          /\ cache[k].ts <= now
    /\ \A p \in Procs :
          /\ (ret[p].kind = "fresh" /\ ret[p].resp.status # 200) =>
                \A k \in DOMAIN cache : cache[k].resp # ret[p].resp
          /\ ret[p].kind = "cached" => ret[p].resp.status = 200

\* One call was served a stored response while another got the status-500
\* response of its own fetch, which is not in the cache.
C20_Witness ==
    \E p, q \in Procs :
        /\ ret[p].kind = "cached" /\ ret[p].resp.status = 200
        /\ ret[q].kind = "fresh" /\ ret[q].resp.status = 500
        /\ cache # <<>>
        /\ \A k \in DOMAIN cache : cache[k].ts < now
\* ------------------------------------- get_deforestation_data tier claims
\* C21: a call that has to fetch, whose page fetch succeeds while
\* get_gfw_data gives None, stores a composite with forest_data {} under the
\* time of the store; a call made less than 86400 seconds after the store
\* returns the stored composite with no upstream request; a call whose page
\* fetch fails leaves the stored data and timestamp as they were; and a call
\* made with nothing stored, or 86400 seconds or more after the store, makes
\* the upstream request.
C21_GfwFailureStillCached ==
    [][\A gap \in Gaps, delay \in FetchDelays, articles \in ArticleCounts :
          LET stored == deforestation_cache.data # NoData
              age == now + gap - deforestation_cache.timestamp
          IN /\ (get_deforestation_data(gap, delay, "ok", articles, "None")
                   /\ ~(stored /\ age < 86400)) =>
                   /\ deforestation_cache'.data.kind = "composite"
                   /\ deforestation_cache'.data.forest_data = "{}"
                   /\ deforestation_cache'.timestamp = now'
                   /\ result' = deforestation_cache'.data
             /\ \A page \in {"ok", "fail"}, gfw \in GfwResults :
                   get_deforestation_data(gap, delay, page, articles, gfw) =>
                      IF stored /\ age < 86400
                      THEN /\ result' = deforestation_cache.data
                           /\ fetches' = fetches
                           /\ deforestation_cache' = deforestation_cache
                      ELSE /\ fetches' = fetches + 1
                           /\ page = "fail" =>
                                 deforestation_cache' = deforestation_cache
      ]_vars

\* The page was fetched while get_gfw_data gave None, and a call made 86399
\* seconds after the store was served the stored composite, forest_data {}.
C21_Witness ==
    /\ outcome = "cached"
    /\ gfw_data = "None"
    /\ result = deforestation_cache.data
    /\ result.forest_data = "{}"
    /\ now - deforestation_cache.timestamp = 86399
\* ------------------------------------- calculate_impact category claims
\* The category is none of the known values.
Unrecognised(category, known) == ~(category.t = "str" /\ category.v \in known)

\* The quantity is exactly n units of 1 / scale kg, where scale divides den.
IsUnits(a, n, scale) ==
    /\ a.frac % (a.den \div scale) = 0
    /\ a.whole * scale + a.frac \div (a.den \div scale) = n

\* C22: a transportation_type outside the six known values is charged the
\* car factor 0.192 and gets no transport advisory; a diet_type outside the
\* five known values is charged the meat_medium factors 5.1, 3800 and 1.2
\* and gets no meat advisory; an energy_source outside the five known values
\* is charged the grid factor 0.3 and gets the renewable-energy advisory.
C22_FallbackFactorRawComparison ==
    Accepted =>
        LET p == result.value.profile
            q == result.value.impacts
            members == IF p.household_members > 1 THEN p.household_members ELSE 1
        IN /\ Unrecognised(p.transport_type,
                           {"car", "electric_car", "public_transport", "carpool",
                            "bicycle", "walking"}) =>
                 /\ IsUnits(q.transportation_impact,
                            p.commute_distance * 365 * 192, 10000)
                 /\ ~Advised(reply.body.recommendations,
                             "Consider public transit or carpooling")
           /\ Unrecognised(p.diet_type,
                           {"meat_heavy", "meat_medium", "pescatarian",
                            "vegetarian", "vegan"}) =>
                 /\ IsUnits(q.diet_impact,
                            365 * 51 * (4000 - p.local_food_percent), 40000)
                 /\ reply.body.water_footprint = 150 + 3800
                 /\ reply.body.land_footprint = 20 + 120
                 /\ ~Advised(reply.body.recommendations, "Reduce meat consumption")
           /\ Unrecognised(p.energy_source,
                           {"grid", "renewable", "natural_gas", "oil", "mixed"}) =>
                 /\ IsUnits(q.home_energy_impact, p.home_size * 365 * 30,
                            1000 * members)
                 /\ Advised(reply.body.recommendations,
                            "Switch to renewable energy")

\* A profile with an unknown transport, diet and energy source: all three are
\* charged, and of the three advisories only the energy one is given.
C22_Witness ==
    /\ Accepted
    /\ result.value.profile.transport_type = JStr("rocket")
    /\ result.value.profile.diet_type = JStr("keto")
    /\ result.value.profile.energy_source = JStr("coal")
    /\ result.value.impacts.transportation_impact.whole > 0
    /\ result.value.impacts.home_energy_impact.whole > 0
    /\ reply.body.water_footprint = 3950
    /\ Advised(reply.body.recommendations, "Switch to renewable energy")
    /\ ~Advised(reply.body.recommendations, "Consider public transit or carpooling")
    /\ ~Advised(reply.body.recommendations, "Reduce meat consumption")
====
